---- MODULE Spec2Model ----
(***************************************************************************)
(* Helpdesk ticket intake: classification of inbound email, deduplication  *)
(* and threading, and rule-based routing.                                  *)
(*                                                                         *)
(* Scores are integers in hundredths (0.4 is 40, 1.0 is 100).  A text is a *)
(* sequence of words of Vocabulary joined by single spaces; the tables     *)
(* KeywordsWithin, WordLen, SpamPatternWords ... record, word by word,     *)
(* what Python's `in`, len() and re.search() give on those words.          *)
(***************************************************************************)
EXTENDS Integers, Sequences, FiniteSets, TLC

VARIABLES
    parsed_email,       \* classifier: the message under classification
    ml_model,           \* the statistical model: "none", "error" or class probabilities
    classification,     \* classifier: last result of classify, or NoResult
    baseline,           \* classifier: the message and score before a keyword was added
    settings,           \* config.Settings (the email_* switches)
    unique_message_id,  \* store schema: email_messages.message_id is UNIQUE
    email_accounts,     \* store: active email accounts
    users,              \* store: table users
    tags,               \* store: table tags
    routing_rules,      \* store: table routing_rules, in creation order
    tickets,            \* store: table tickets (id = position)
    email_messages,     \* store: table email_messages (id = position)
    email_threads,      \* store: table email_threads
    messages,           \* store: table messages
    ticket_tags,        \* store: table ticket_tags
    routing_logs,       \* store: table routing_logs
    sla_definitions,    \* store: table sla_definitions, in creation order
    now,                \* the clock, in seconds
    calls,              \* the calls in progress, one per worker
    lastCall            \* the call that finished last, and the tables as it found them

classifyVars == <<parsed_email, classification, baseline>>
configVars == <<settings, unique_message_id, email_accounts, users, tags, routing_rules>>
tableVars == <<tickets, email_messages, email_threads, messages, ticket_tags, routing_logs>>
slaVars == <<sla_definitions, now>>

vars == <<parsed_email, ml_model, classification, baseline, settings,
          unique_message_id, email_accounts, users, tags, routing_rules,
          tickets, email_messages, email_threads, messages, ticket_tags,
          routing_logs, sla_definitions, now, calls, lastCall>>

----------------------------------------------------------------------------
(* Bounds of the model *)

MaxSubjectWords == 1
MaxBodyWords == 1
MaxTickets == 2
MaxEmailMessages == 3

----------------------------------------------------------------------------
(* Texts *)

LongPhrase == "i need some help with my recent order please"

Vocabulary ==
    {"hello", LongPhrase, "viagra", "lottery", "bitcoin", "sale",
     "promotional", "unsubscribe"}

\* len(w)
WordLen(w) ==
    CASE w = "hello" -> 5
      [] w = LongPhrase -> 44
      [] w = "viagra" -> 6
      [] w = "lottery" -> 7
      [] w = "bitcoin" -> 7
      [] w = "sale" -> 4
      [] w = "promotional" -> 11
      [] w = "unsubscribe" -> 11

\* the keywords k (of the classifier's lists or of a routing rule) with `k in w`
KeywordsWithin(w) ==
    CASE w = "viagra" -> {"viagra"}
      [] w = LongPhrase -> {"order"}
      [] w = "lottery" -> {"lottery"}
      [] w = "bitcoin" -> {"bitcoin"}
      [] w = "sale" -> {"sale"}
      [] w = "promotional" -> {"promotion", "promotional"}
      [] w = "unsubscribe" -> {"unsubscribe", "subscribe"}
      [] OTHER -> {}

Range(s) == {s[i] : i \in DOMAIN s}

RECURSIVE SumLen(_)
SumLen(ws) == IF ws = <<>> THEN 0 ELSE WordLen(Head(ws)) + SumLen(Tail(ws))

\* len(" ".join(ws))
TextLen(ws) == IF ws = <<>> THEN 0 ELSE SumLen(ws) + (Len(ws) - 1)

\* all sequences over S of length at most n
SeqsUpTo(S, n) == UNION {[1..k -> S] : k \in 0..n}

\* str.lower() on the strings of the model
Lower(s) ==
    CASE s = "Re:" -> "re:"
      [] s = "RE:" -> "re:"
      [] s = "Fwd:" -> "fwd:"
      [] s = "FW:" -> "fw:"
      [] s = "ORDER" -> "order"
      [] s = "HIGH" -> "high"
      [] s = "Email" -> "email"
      [] s = "URGENT" -> "urgent"
      [] s = "Agent@Example.com" -> "agent@example.com"
      [] OTHER -> s

LowerText(ws) == [i \in DOMAIN ws |-> Lower(ws[i])]

Min(a, b) == IF a <= b THEN a ELSE b
Max(a, b) == IF a >= b THEN a ELSE b

----------------------------------------------------------------------------
(* SpamClassifier *)

spam_keywords ==
    {"unsubscribe", "click here", "limited time", "act now", "urgent action",
     "winner", "congratulations", "free money", "claim your prize", "you won",
     "viagra", "cialis", "pharmacy", "pills", "medication",
     "nigerian prince", "inheritance", "lottery", "sweepstakes",
     "debt relief", "consolidate debt", "credit repair",
     "work from home", "make money", "get rich", "earn $",
     "meet singles", "dating", "find love",
     "enlarge", "weight loss", "lose weight fast",
     "rolex", "replica", "cheap watches",
     "bitcoin", "cryptocurrency investment", "crypto trading",
     "loan approval", "pre-approved", "guaranteed approval"}

promotion_keywords ==
    {"promotion", "special offer", "limited offer", "exclusive deal",
     "discount", "sale", "clearance", "save up to", "percent off",
     "coupon", "voucher", "promo code", "use code",
     "subscribe", "newsletter", "marketing", "advertisement",
     "sponsored", "ad", "commercial", "promotional",
     "unsubscribe from", "manage preferences", "email preferences",
     "view in browser", "view online", "web version",
     "this email was sent to", "you are receiving this",
     "update your preferences", "change email settings"}

\* words on which some spam_subject_patterns regex matches
SpamPatternWords == {"viagra"}

\* words on which some promotion_subject_patterns regex matches
PromotionPatternWords == {"sale"}

\* sender addresses on which some suspicious_sender_patterns regex matches
SuspiciousSenders == {"deals@promo.shop.com"}

\* sum(1 for keyword in keywords if keyword in text)
KeywordMatches(keywords, text) ==
    Cardinality(keywords \cap UNION {KeywordsWithin(w) : w \in Range(text)})

\* len(re.findall(r'unsubscribe', full_text))
UnsubscribeCount(text) ==
    Cardinality({i \in DOMAIN text : text[i] = "unsubscribe"})

\* MLSpamClassifier.predict: the model is absent (state "none"), raises on
\* prediction ("error") or yields the class probabilities <<ham, spam, promotion>>
predict(model) ==
    IF model.state = "none"
    THEN [is_spam |-> FALSE, is_promotion |-> FALSE, confidence |-> 0,
          ml_score |-> 0, method |-> "none"]
    ELSE IF model.state = "error"
    THEN [is_spam |-> FALSE, is_promotion |-> FALSE, confidence |-> 0,
          ml_score |-> 0, method |-> "error"]
    ELSE LET p == model.probabilities
             prediction ==
                 CHOOSE c \in 1..3 :
                     /\ \A d \in 1..3 : p[d] <= p[c]
                     /\ \A d \in 1..(c - 1) : p[d] < p[c]
         IN [is_spam |-> prediction = 2,
             is_promotion |-> prediction = 3,
             confidence |-> Max(p[1], Max(p[2], p[3])),
             ml_score |-> p[2],
             method |-> "ml"]

\* the rule score with the subject weight given for exactly one keyword
RuleSpamScoreOneKeyword(e) ==
    LET subject == LowerText(e.subject)
        body_text == LowerText(e.body_text)
        full_text == subject \o body_text \o LowerText(e.body_html)
    IN  (IF KeywordMatches(spam_keywords, subject) = 1 THEN 40 ELSE 0)
      + (IF KeywordMatches(spam_keywords, full_text) > 2 THEN 30 ELSE 0)
      + (IF \E w \in Range(subject) : w \in SpamPatternWords THEN 20 ELSE 0)
      + (IF e.from_email \in SuspiciousSenders THEN 20 ELSE 0)
      + (IF TextLen(body_text) < 50 /\ e.in_reply_to = "" THEN 10 ELSE 0)

\* the rule-based spam score before it is clamped
RuleSpamScore(e) ==
    LET subject == LowerText(e.subject)
        body_text == LowerText(e.body_text)
        full_text == subject \o body_text \o LowerText(e.body_html)
    IN  (IF KeywordMatches(spam_keywords, subject) > 0 THEN 40 ELSE 0)
      + (IF KeywordMatches(spam_keywords, full_text) > 2 THEN 30 ELSE 0)
      + (IF \E w \in Range(subject) : w \in SpamPatternWords THEN 20 ELSE 0)
      + (IF e.from_email \in SuspiciousSenders THEN 20 ELSE 0)
      \* link_count > 5: no word of Vocabulary holds a URL
      + 0
      + (IF TextLen(body_text) < 50 /\ e.in_reply_to = "" THEN 10 ELSE 0)
      \* subject.isupper(): subject was lower-cased on entry, never true
      + 0

\* the rule-based promotion score before it is clamped
RulePromotionScore(e) ==
    LET subject == LowerText(e.subject)
        full_text == subject \o LowerText(e.body_text) \o LowerText(e.body_html)
    IN  (IF e.headers \cap {"List-Unsubscribe", "List-Unsubscribe-Post"} # {}
         THEN 30 ELSE 0)
      + (IF KeywordMatches(promotion_keywords, subject) > 0 THEN 30 ELSE 0)
      + (IF KeywordMatches(promotion_keywords, full_text) > 3 THEN 40 ELSE 0)
      + (IF \E w \in Range(subject) : w \in PromotionPatternWords THEN 20 ELSE 0)
      + (IF e.from_email \in SuspiciousSenders THEN 10 ELSE 0)
      + (IF UnsubscribeCount(full_text) > 0 THEN 20 ELSE 0)

\* is_spam with promotion taking precedence when both scores are high
DecideSpamPromotionFirst(spam_score, promotion_score) ==
    spam_score >= 50 /\ promotion_score < 50

\* is_spam = spam_score >= 0.5
DecideSpam(spam_score, promotion_score) ==
    spam_score >= 50

\* is_promotion = promotion_score >= 0.5 and not is_spam
DecidePromotion(spam_score, promotion_score, is_spam) ==
    promotion_score >= 50 /\ ~is_spam

\* the reply override, dropped
IsReplyNever(e) == FALSE

\* if parsed_email.get("in_reply_to")
IsReply(e) == e.in_reply_to # ""

\* the combination with the two weights exchanged
CombinedSpamScoreRuleFirst(ml_score, spam_score) ==
    (40 * ml_score + 60 * spam_score) \div 100

\* combined_spam_score = (ml_weight * ml_score) + (rule_weight * spam_score)
CombinedSpamScore(ml_score, spam_score) ==
    (60 * ml_score + 40 * spam_score) \div 100

\* SpamClassifier.classify, with the ML setting and the model as inputs
classify(e, ml_enabled, model) ==
    LET ml_prediction == IF ml_enabled THEN predict(model) ELSE [method |-> "off"]
        ml_used == ml_enabled /\ ml_prediction.method = "ml"
        rule_spam == Min(RuleSpamScore(e), 100)
        rule_promotion == Min(RulePromotionScore(e), 100)
        ml_confidence == IF ml_used THEN ml_prediction.confidence ELSE 0
        combined_spam_score ==
            IF ml_used
            THEN CombinedSpamScore(ml_prediction.ml_score, rule_spam)
            ELSE rule_spam
        promotion1 ==
            IF ml_used /\ ml_prediction.is_promotion
            THEN Max(rule_promotion, ml_confidence)
            ELSE rule_promotion
        spam_score ==
            IF ml_used /\ ml_confidence > 70 /\ ml_prediction.is_spam
            THEN Max(combined_spam_score, 70)
            ELSE combined_spam_score
        promotion_score ==
            IF ml_used /\ ml_confidence > 70 /\ ~ml_prediction.is_spam
                       /\ ml_prediction.is_promotion
            THEN Max(promotion1, 70)
            ELSE promotion1
        spam0 == DecideSpam(spam_score, promotion_score)
        promotion0 == DecidePromotion(spam_score, promotion_score, spam0)
        is_spam == IF IsReply(e) THEN FALSE ELSE spam0
        is_promotion == IF IsReply(e) THEN FALSE ELSE promotion0
        confidence0 ==
            IF is_spam \/ is_promotion
            THEN Max(spam_score, promotion_score)
            ELSE 100 - Max(spam_score, promotion_score)
    IN  [is_spam |-> is_spam,
         is_promotion |-> is_promotion,
         is_ham |-> ~is_spam /\ ~is_promotion,
         confidence |-> IF ml_used /\ ml_confidence > confidence0
                        THEN ml_confidence ELSE confidence0,
         category |-> IF is_spam THEN "spam"
                      ELSE IF is_promotion THEN "promotion" ELSE "ham",
         spam_score |-> spam_score,
         promotion_score |-> promotion_score,
         ml_used |-> ml_used,
         ml_confidence |-> ml_confidence]

\* should_filter as a filter that forgets promotions
should_filter_spam_only(e, filter_promotions, ml_enabled, model) ==
    classify(e, ml_enabled, model).is_spam

\* SpamClassifier.should_filter
should_filter(e, filter_promotions, ml_enabled, model) ==
    LET c == classify(e, ml_enabled, model)
    IN  c.is_spam \/ (filter_promotions /\ c.is_promotion)

----------------------------------------------------------------------------
(* The store *)

\* the tables the handlers write, as one value
DB ==
    [tickets |-> tickets, email_messages |-> email_messages,
     email_threads |-> email_threads, messages |-> messages,
     ticket_tags |-> ticket_tags, routing_logs |-> routing_logs]

\* email_messages .eq("message_id", mid): the ids of the rows found
EmailIdsByMessageId(db, mid) ==
    {i \in DOMAIN db.email_messages : db.email_messages[i].message_id = mid}

\* a row a .limit(1) query may return: any of the rows found, 0 when none is
PickOk(db, mid, pick) ==
    IF EmailIdsByMessageId(db, mid) = {}
    THEN pick = 0
    ELSE pick \in EmailIdsByMessageId(db, mid)

\* users .eq("email", addr).limit(1): bool(user_res.data)
IsRegisteredUser(addr) == \E u \in users : u.email = addr

\* `needle in hay` on the category, context and issue-type strings of the model
Contains(hay, needle) ==
    \/ needle = hay
    \/ needle = ""
    \/ <<hay, needle>> \in {<<"billing question", "billing">>}

----------------------------------------------------------------------------
(* RoutingService *)

\* every permutation of S as a sequence
Perms(S) ==
    {f \in [1..Cardinality(S) -> S] : \A i, j \in DOMAIN f : i # j => f[i] # f[j]}

\* .order("priority", desc=True): the orders the store may return the rules in
\* (rules of equal priority come in any order)
SortedOrders ==
    {p \in Perms(DOMAIN routing_rules) :
        \A i, j \in DOMAIN p :
            i < j => routing_rules[p[i]].priority >= routing_rules[p[j]].priority}

\* the rules the query of apply_routing_rules selects, in the order returned
SelectRules(ticket, organization_id, order) ==
    LET org == IF organization_id # "None" THEN organization_id
               ELSE ticket.organization_id
        keep(i) == /\ routing_rules[i].is_active
                   /\ (org # "None" => routing_rules[i].organization_id = org)
    IN  SelectSeq(order, keep)

\* the words of " ".join(msg["message"] for msg in messages of the ticket)
TicketText(db, ticket_id) ==
    LET F[i \in 0..Len(db.messages)] ==
            IF i = 0 THEN <<>>
            ELSE IF db.messages[i].ticket_id = ticket_id
                 THEN F[i - 1] \o db.messages[i].message
                 ELSE F[i - 1]
    IN  F[Len(db.messages)]

\* ticket_tags .eq("ticket_id", ticket_id): the set of tag ids
TicketTagIds(db, ticket_id) ==
    {db.ticket_tags[i].tag_id :
        i \in {j \in DOMAIN db.ticket_tags : db.ticket_tags[j].ticket_id = ticket_id}}

\* RoutingService._rule_matches: "match", "nomatch", or "raise" when
\* ticket.get("category", "") is None and .lower() is called on it
_rule_matches(rule, ticket, ticket_text_lower, subject_lower, context_lower, ticket_tag_ids) ==
    LET conditions == rule.conditions
        search_text == subject_lower \o ticket_text_lower \o <<context_lower>>
        keyword_match ==
            \E keyword \in conditions.keywords :
                \E w \in Range(search_text) :
                    Lower(keyword) \in KeywordsWithin(w) \cup {w}
        issue_match ==
            \E issue_type \in conditions.issue_types :
                \/ Contains(Lower(ticket.category), Lower(issue_type))
                \/ Contains(context_lower, Lower(issue_type))
        rule_tag_ids == {t.id : t \in {u \in tags : u.name \in conditions.tags}}
    IN  IF conditions.keywords # {} /\ ~keyword_match THEN "nomatch"
        ELSE IF conditions.issue_types # {} /\ ticket.category = "None" THEN "raise"
        ELSE IF conditions.issue_types # {} /\ ~issue_match THEN "nomatch"
        ELSE IF conditions.tags # {} /\ rule_tag_ids \cap ticket_tag_ids = {} THEN "nomatch"
        ELSE IF conditions.context # {}
                /\ context_lower \notin {Lower(c) : c \in conditions.context} THEN "nomatch"
        ELSE IF conditions.priority # {}
                /\ Lower(ticket.priority) \notin {Lower(q) : q \in conditions.priority}
             THEN "nomatch"
        ELSE "match"

\* tickets.update(update_data).eq("id", ticket_id)
UpdateTicket(db, ticket_id, update_data) ==
    [db EXCEPT !.tickets[ticket_id] =
        [f \in DOMAIN @ |-> IF f \in DOMAIN update_data THEN update_data[f] ELSE @[f]]]

\* RoutingService._apply_rule_action: the store afterwards and "success"
_apply_rule_action(db, rule, ticket_id) ==
    LET action_type == rule.action_type
        action_value == rule.action_value
    IN  IF action_type = "assign_to_agent"
        THEN IF \E u \in users : /\ u.email = Lower(action_value)
                                 /\ u.role \in {"admin", "super_admin"}
             THEN [db |-> UpdateTicket(db, ticket_id,
                              [assigned_to |-> Lower(action_value),
                               status |-> "human_assigned"]),
                   success |-> TRUE]
             ELSE [db |-> db, success |-> FALSE]
        ELSE IF action_type = "set_priority"
        THEN IF Lower(action_value) \in {"low", "medium", "high", "urgent"}
             THEN [db |-> UpdateTicket(db, ticket_id, [priority |-> Lower(action_value)]),
                   success |-> TRUE]
             ELSE [db |-> db, success |-> FALSE]
        ELSE IF action_type = "add_tag"
        THEN IF \E t \in tags : t.name = action_value
             THEN LET tag_id == (CHOOSE t \in tags : t.name = action_value).id
                  IN  [db |-> IF tag_id \in TicketTagIds(db, ticket_id)
                              THEN db
                              ELSE [db EXCEPT !.ticket_tags =
                                       Append(@, [ticket_id |-> ticket_id, tag_id |-> tag_id])],
                       success |-> TRUE]
             ELSE [db |-> db, success |-> FALSE]
        ELSE IF action_type = "set_category"
        THEN [db |-> UpdateTicket(db, ticket_id, [category |-> action_value]),
              success |-> TRUE]
        ELSE [db |-> db, success |-> TRUE]

\* the loop with the ticket and its tags read again from the store before
\* every rule
RECURSIVE EvaluateRulesLive(_, _, _, _, _, _)
EvaluateRulesLive(db, rules, ticket_id, ticket, ticket_text_lower, ticket_tag_ids) ==
    IF rules = <<>>
    THEN [db |-> db, success |-> TRUE]
    ELSE LET rule == routing_rules[Head(rules)]
             live == db.tickets[ticket_id]
             m == _rule_matches(rule, live, ticket_text_lower,
                                LowerText(live.subject), Lower(live.context),
                                TicketTagIds(db, ticket_id))
         IN  IF m = "raise"
             THEN [db |-> db, success |-> FALSE]
             ELSE IF m = "nomatch"
             THEN EvaluateRulesLive(db, Tail(rules), ticket_id, ticket,
                                    ticket_text_lower, ticket_tag_ids)
             ELSE LET r == _apply_rule_action(db, rule, ticket_id)
                      logged ==
                          IF r.success
                          THEN [r.db EXCEPT !.routing_logs =
                                   Append(@, [ticket_id |-> ticket_id,
                                              routing_rule_id |-> rule.id])]
                          ELSE r.db
                  IN  EvaluateRulesLive(logged, Tail(rules), ticket_id, ticket,
                                        ticket_text_lower, ticket_tag_ids)

\* the loop of apply_routing_rules over the rules still to evaluate; the ticket,
\* its text and its tags are those read before the loop
RECURSIVE EvaluateRules(_, _, _, _, _, _)
EvaluateRules(db, rules, ticket_id, ticket, ticket_text_lower, ticket_tag_ids) ==
    IF rules = <<>>
    THEN [db |-> db, success |-> TRUE]
    ELSE LET rule == routing_rules[Head(rules)]
             m == _rule_matches(rule, ticket, ticket_text_lower,
                                LowerText(ticket.subject), Lower(ticket.context),
                                ticket_tag_ids)
         IN  IF m = "raise"
             THEN [db |-> db, success |-> FALSE]
             ELSE IF m = "nomatch"
             THEN EvaluateRules(db, Tail(rules), ticket_id, ticket,
                                ticket_text_lower, ticket_tag_ids)
             ELSE LET r == _apply_rule_action(db, rule, ticket_id)
                      logged ==
                          IF r.success
                          THEN [r.db EXCEPT !.routing_logs =
                                   Append(@, [ticket_id |-> ticket_id,
                                              routing_rule_id |-> rule.id])]
                          ELSE r.db
                  IN  EvaluateRules(logged, Tail(rules), ticket_id, ticket,
                                    ticket_text_lower, ticket_tag_ids)

\* RoutingService.apply_routing_rules, the rules coming back in `order`
apply_routing_rules(db, ticket_id, organization_id, order) ==
    IF ticket_id \notin DOMAIN db.tickets
    THEN [db |-> db, success |-> FALSE]
    ELSE LET ticket == db.tickets[ticket_id]
             rules == SelectRules(ticket, organization_id, order)
         IN  IF rules = <<>>
             THEN [db |-> db, success |-> TRUE]
             ELSE EvaluateRules(db, rules, ticket_id, ticket,
                                LowerText(TicketText(db, ticket_id)),
                                TicketTagIds(db, ticket_id))

----------------------------------------------------------------------------
(* Email intake: EmailPollingService.process_email_to_ticket ("poll") and   *)
(* receive_email_webhook ("webhook"), one step per call to the store.       *)
(* A call is [op, e, pc, from_email_bound, ticket_id, email_id,             *)
(* thread_count, user_id, created, routed, ret, outcome, overlapped];       *)
(* ticket and row ids start at 1 and 0 stands for None; overlapped records  *)
(* that another call was in progress during this one.                      *)

\* what (Re:|Fwd?:|RE:|FW?:) matches under re.IGNORECASE, in lower case
PrefixWords == {"re:", "fwd:", "fw:", "f:"}

\* re.sub(r'^(Re:|Fwd?:|RE:|FW?:)\s*', '', subject, flags=re.IGNORECASE).strip():
\* without a count re.sub replaces every match, and ^ matches once
CleanSubject(subject) ==
    IF subject # <<>> /\ Lower(Head(subject)) \in PrefixWords
    THEN Tail(subject) ELSE subject

\* the subject of a ticket created from an email
TicketSubject(e) ==
    IF CleanSubject(e.subject) # <<>>
    THEN CleanSubject(e.subject)
    ELSE <<"Email", "from", e.from_email>>

StartCall(op, e) ==
    [op |-> op, e |-> e, pc |-> IF op = "poll" THEN "filter" ELSE "reply",
     from_email_bound |-> (op = "webhook"), ticket_id |-> 0, email_id |-> 0,
     thread_count |-> 0, user_id |-> "None", created |-> 0, routed |-> 0,
     ret |-> 0, outcome |-> "running", overlapped |-> FALSE]

Finish(loc, ret, outcome) ==
    [loc EXCEPT !.pc = "done", !.ret = ret, !.outcome = outcome]

\* a local variable read before assignment, a store error or an HTTPException:
\* process_email_to_ticket returns None, the webhook answers with an error
Fail(loc) == Finish(loc, 0, "error")

\* spam_classifier.should_filter(parsed_email, filter_promotions=...)
ShouldFilter(e) ==
    should_filter(e, settings.email_filter_promotions,
                  settings.email_ml_classifier_enabled, ml_model)

\* process_email_to_ticket, lines 33-72: the spam filter
StepFilter(st) ==
    LET loc == st.loc
        e == loc.e
    IN  IF ~settings.email_spam_filter_enabled
        THEN [st EXCEPT !.loc.pc = "dup"]
        ELSE IF e.from_email # "" /\ IsRegisteredUser(Lower(e.from_email))
        THEN [st EXCEPT !.loc.pc = "dup", !.loc.from_email_bound = TRUE]
        ELSE IF ShouldFilter(e)
        THEN IF settings.email_log_filtered
             THEN [st EXCEPT !.loc.pc = "log_filtered", !.loc.from_email_bound = TRUE]
             ELSE [st EXCEPT !.loc = Finish([loc EXCEPT !.from_email_bound = TRUE],
                                            0, "filtered")]
        ELSE [st EXCEPT !.loc.pc = "dup", !.loc.from_email_bound = TRUE]

\* email_messages.insert(row): the store afterwards; the insert raises when
\* the schema makes message_id unique and a row already holds it
InsertEmailMessage(db, row) ==
    IF unique_message_id /\ EmailIdsByMessageId(db, row.message_id) # {}
    THEN [raised |-> TRUE, db |-> db]
    ELSE [raised |-> FALSE, db |-> [db EXCEPT !.email_messages = Append(@, row)]]

EmailRow(e, ticket_id, status) ==
    [ticket_id |-> ticket_id, message_id |-> e.message_id,
     in_reply_to |-> e.in_reply_to, subject |-> e.subject,
     body_text |-> e.body_text, from_email |-> e.from_email,
     status |-> status, direction |-> "inbound"]

\* lines 57-72: the filtered email is logged, a failure only warns
StepLogFiltered(st) ==
    LET row == [EmailRow(st.loc.e, 0, "filtered") EXCEPT !.in_reply_to = ""]
    IN  [db |-> InsertEmailMessage(st.db, row).db,
         loc |-> Finish(st.loc, 0, "filtered")]

\* the duplicate check, skipped: every delivery is processed afresh
StepDupNoCheck(st, pick) == [st EXCEPT !.loc.pc = "reply"]

\* lines 77-88: the duplicate check
StepDup(st, pick) ==
    IF st.loc.e.message_id # "" /\ pick # 0
    THEN [st EXCEPT !.loc = Finish(st.loc, st.db.email_messages[pick].ticket_id,
                                   "duplicate")]
    ELSE [st EXCEPT !.loc.pc = "reply"]

\* lines 93-105 (poll), 3353-3365 (webhook): the ticket the email replies to
StepReply(st, pick) ==
    LET found == IF st.loc.e.in_reply_to # "" /\ pick # 0
                 THEN st.db.email_messages[pick].ticket_id
                 ELSE 0
    IN  [st EXCEPT !.loc.ticket_id = found,
                   !.loc.pc = IF found # 0
                              THEN (IF st.loc.op = "poll" THEN "insert_email"
                                    ELSE "account")
                              ELSE "find_user"]

\* lines 108-132, 3368-3392: the data of the new ticket, and its user
StepFindUser(st) ==
    IF ~st.loc.from_email_bound
    THEN [st EXCEPT !.loc = Fail(st.loc)]
    ELSE [st EXCEPT !.loc.pc = "insert_ticket",
                    !.loc.user_id =
                        IF IsRegisteredUser(Lower(st.loc.e.from_email))
                        THEN Lower(st.loc.e.from_email) ELSE "None"]

\* ticket_data of email_polling_service.py 113-121 and main.py 3373-3381; the
\* columns it does not name, sla_id among them, are null (0 for an id)
NewEmailTicket(e, user_id) ==
    [context |-> "email", subject |-> TicketSubject(e), status |-> "open",
     priority |-> "medium", user_id |-> user_id, source |-> "email",
     assigned_to |-> "None", category |-> "None", organization_id |-> "None",
     sla_id |-> 0]

\* lines 134-141, 3394-3402: tickets.insert(ticket_data)
StepInsertTicket(st) ==
    LET db2 == [st.db EXCEPT !.tickets = Append(@, NewEmailTicket(st.loc.e, st.loc.user_id))]
        id == Len(db2.tickets)
    IN  [db |-> db2,
         loc |-> [st.loc EXCEPT !.ticket_id = id, !.created = id,
                                !.pc = IF st.loc.op = "poll" THEN "insert_email"
                                       ELSE "account"]]

\* lines 3404-3410: email_service.get_default_email_account()
StepAccount(st) ==
    IF email_accounts = {}
    THEN [st EXCEPT !.loc = Fail(st.loc)]
    ELSE [st EXCEPT !.loc.pc = "insert_email"]

\* lines 143-162, 3412-3431: email_messages.insert(email_message_data)
StepInsertEmail(st) ==
    IF ~st.loc.from_email_bound
    THEN [st EXCEPT !.loc = Fail(st.loc)]
    ELSE LET r == InsertEmailMessage(st.db, EmailRow(st.loc.e, st.loc.ticket_id, "received"))
         IN  IF r.raised
             THEN [st EXCEPT !.loc = Fail(st.loc)]
             ELSE [db |-> r.db,
                   loc |-> [st.loc EXCEPT !.email_id = Len(r.db.email_messages),
                                          !.pc = "count_thread"]]

\* the count query without its .eq("ticket_id", ...) filter
ThreadCountAllTickets(db, ticket_id) == Len(db.email_threads)

\* email_threads.select("id", count="exact").eq("ticket_id", ticket_id).count
ThreadCount(db, ticket_id) ==
    Cardinality({i \in DOMAIN db.email_threads : db.email_threads[i].ticket_id = ticket_id})

\* lines 167-173, 3436-3442
StepCountThread(st) ==
    [st EXCEPT !.loc.thread_count = ThreadCount(st.db, st.loc.ticket_id),
               !.loc.pc = "insert_thread"]

\* lines 175-180, 3444-3449
StepInsertThread(st) ==
    [st EXCEPT !.db.email_threads =
                   Append(@, [ticket_id |-> st.loc.ticket_id,
                              email_message_id |-> st.loc.email_id,
                              thread_position |-> st.loc.thread_count + 1]),
               !.loc.pc = "insert_message"]

\* lines 183-189, 3452-3458: the message of the ticket, then the end of the
\* webhook, or of a poll call that skips routing
StepInsertMessage(st) ==
    LET e == st.loc.e
        db2 == [st.db EXCEPT !.messages =
                   Append(@, [ticket_id |-> st.loc.ticket_id, sender |-> "customer",
                              message |-> <<"Email", "received", "from", e.from_email>>
                                          \o e.body_text])]
    IN  IF st.loc.op = "poll" /\ e.in_reply_to = ""
        THEN [db |-> db2, loc |-> [st.loc EXCEPT !.pc = "route"]]
        ELSE [db |-> db2, loc |-> Finish(st.loc, st.loc.ticket_id, "ok")]

\* lines 191-207: routing of the ticket; a failure only warns
StepRoute(st, order) ==
    LET organization_id == st.db.tickets[st.loc.ticket_id].organization_id
        r == apply_routing_rules(st.db, st.loc.ticket_id, organization_id, order)
    IN  [db |-> r.db,
         loc |-> Finish([st.loc EXCEPT !.routed = st.loc.ticket_id],
                        st.loc.ticket_id, "ok")]

\* one step of a call; picks.dup and picks.reply are the rows the two
\* .limit(1) lookups return, picks.order the order the rules come back in
Step(st, picks) ==
    CASE st.loc.pc = "filter" -> StepFilter(st)
      [] st.loc.pc = "log_filtered" -> StepLogFiltered(st)
      [] st.loc.pc = "dup" -> StepDup(st, picks.dup)
      [] st.loc.pc = "reply" -> StepReply(st, picks.reply)
      [] st.loc.pc = "find_user" -> StepFindUser(st)
      [] st.loc.pc = "insert_ticket" -> StepInsertTicket(st)
      [] st.loc.pc = "account" -> StepAccount(st)
      [] st.loc.pc = "insert_email" -> StepInsertEmail(st)
      [] st.loc.pc = "count_thread" -> StepCountThread(st)
      [] st.loc.pc = "insert_thread" -> StepInsertThread(st)
      [] st.loc.pc = "insert_message" -> StepInsertMessage(st)
      [] st.loc.pc = "route" -> StepRoute(st, picks.order)

\* a call run from its current step to its end with no other call in between
RECURSIVE Run(_, _)
Run(st, picks) == IF st.loc.pc = "done" THEN st ELSE Run(Step(st, picks), picks)

----------------------------------------------------------------------------
(* Sequential intake: each call runs from start to end as one action *)

NoResult == [category |-> "unclassified"]
NoCall == [call |-> [op |-> "none", outcome |-> "none"]]

Agent == [email |-> "agent@example.com", role |-> "admin"]
Alice == [email |-> "alice@example.com", role |-> "customer"]

NoConditions ==
    [keywords |-> {}, issue_types |-> {}, tags |-> {}, context |-> {}, priority |-> {}]

Rule(id, priority, conditions, action_type, action_value) ==
    [id |-> id, priority |-> priority, is_active |-> TRUE, organization_id |-> "None",
     conditions |-> conditions, action_type |-> action_type,
     action_value |-> action_value]

\* the contents of the inbound emails: ham, spam (subject keyword, subject
\* pattern, short body), promotion (subject keyword and pattern), a reply
IntakeContents ==
    {[subject |-> <<"hello">>, body_text |-> <<LongPhrase, "hello">>],
     [subject |-> <<"viagra">>, body_text |-> <<"hello">>],
     [subject |-> <<"Re:", "sale">>, body_text |-> <<LongPhrase, "hello">>]}

\* <<Message-ID, In-Reply-To>> of the inbound emails; no stored message ever
\* has the id "m9"
MessageHeaders ==
    {<<"m1", "">>, <<"m2", "">>, <<"", "">>, <<"m2", "m1">>, <<"", "m1">>,
     <<"m2", "m9">>}

IntakeEmails ==
    {[message_id |-> h[1], in_reply_to |-> h[2], from_email |-> "alice@example.com",
      subject |-> c.subject, body_text |-> c.body_text, body_html |-> <<>>,
      headers |-> {}] :
        h \in MessageHeaders, c \in IntakeContents}

NoEmail ==
    [message_id |-> "", in_reply_to |-> "", from_email |-> "", subject |-> <<>>,
     body_text |-> <<>>, body_html |-> <<>>, headers |-> {}]

InitClassifierIdle ==
    /\ parsed_email = NoEmail
    /\ classification = NoResult
    /\ baseline = NoResult
    /\ ml_model = [state |-> "none", probabilities |-> <<>>]

InitTables ==
    /\ tickets = <<>>
    /\ email_messages = <<>>
    /\ email_threads = <<>>
    /\ messages = <<>>
    /\ ticket_tags = <<>>
    /\ routing_logs = <<>>
    /\ sla_definitions = <<>>
    /\ now = 0
    /\ calls = <<>>
    /\ lastCall = NoCall

DefaultSettings ==
    [email_spam_filter_enabled |-> TRUE, email_filter_promotions |-> TRUE,
     email_log_filtered |-> FALSE, email_ml_classifier_enabled |-> TRUE]

InitRouting2 ==
    /\ tags = {[id |-> 1, name |-> "vip"]}
    /\ routing_rules =
           <<Rule(1, 10, NoConditions, "set_priority", "high"),
             Rule(2, 5, [NoConditions EXCEPT !.keywords = {"order"}],
                  "assign_to_agent", "agent@example.com")>>

\* the polling service on any settings, with or without a unique message_id
InitPoll ==
    /\ InitClassifierIdle
    /\ InitTables
    /\ InitRouting2
    /\ settings \in [email_spam_filter_enabled : BOOLEAN,
                     email_filter_promotions : BOOLEAN,
                     email_log_filtered : BOOLEAN,
                     email_ml_classifier_enabled : {TRUE}]
    /\ unique_message_id \in BOOLEAN
    /\ email_accounts = {"support@helpdesk.example"}
    /\ users \in {{Agent}, {Agent, Alice}}

\* the webhook, which reads no setting, with or without an email account
InitWebhook ==
    /\ InitClassifierIdle
    /\ InitTables
    /\ InitRouting2
    /\ settings = DefaultSettings
    /\ unique_message_id \in BOOLEAN
    /\ email_accounts \in {{}, {"support@helpdesk.example"}}
    /\ users \in {{Agent}, {Agent, Alice}}

\* both entry points on one store, without a model or with one that sees spam
InitIntake ==
    /\ parsed_email = NoEmail
    /\ classification = NoResult
    /\ baseline = NoResult
    /\ ml_model \in {[state |-> "none", probabilities |-> <<>>],
                     [state |-> "trained", probabilities |-> <<10, 80, 10>>]}
    /\ InitTables
    /\ InitRouting2
    /\ settings = DefaultSettings
    /\ unique_message_id \in BOOLEAN
    /\ email_accounts = {"support@helpdesk.example"}
    /\ users = {Agent}

\* the rows the lookups of a call for e may return, and the order of the rules
Picks(e) ==
    {pk \in [dup : 0..Len(email_messages), reply : 0..Len(email_messages),
             order : SortedOrders] :
        /\ IF e.message_id # "" THEN PickOk(DB, e.message_id, pk.dup) ELSE pk.dup = 0
        /\ IF e.in_reply_to # "" THEN PickOk(DB, e.in_reply_to, pk.reply)
           ELSE pk.reply = 0}

CallAtOnce(op, e) ==
    /\ Len(email_messages) < MaxEmailMessages
    /\ \E pk \in Picks(e) :
          \E st \in {Run([db |-> DB, loc |-> StartCall(op, e)], pk)} :
              /\ Len(st.db.tickets) <= MaxTickets
              /\ tickets' = st.db.tickets
              /\ email_messages' = st.db.email_messages
              /\ email_threads' = st.db.email_threads
              /\ messages' = st.db.messages
              /\ ticket_tags' = st.db.ticket_tags
              /\ routing_logs' = st.db.routing_logs
              /\ lastCall' = [call |-> st.loc, before |-> DB]
    /\ UNCHANGED <<classifyVars, ml_model, configVars, slaVars, calls>>

\* EmailPollingService.process_email_to_ticket(parsed_email, account_id)
ProcessEmailToTicket(e) == CallAtOnce("poll", e)

\* receive_email_webhook, from the parsed email on
ReceiveEmailWebhook(e) == CallAtOnce("webhook", e)

NextPoll == \E e \in IntakeEmails : ProcessEmailToTicket(e)

NextWebhook == \E e \in IntakeEmails : ReceiveEmailWebhook(e)

NextIntake ==
    \/ \E e \in IntakeEmails : ProcessEmailToTicket(e)
    \/ \E e \in IntakeEmails : ReceiveEmailWebhook(e)

SpecPoll == InitPoll /\ [][NextPoll]_vars

SpecWebhook == InitWebhook /\ [][NextWebhook]_vars

SpecIntake == InitIntake /\ [][NextIntake]_vars

\* the most prefixes a subject line of the model starts with
MaxPrefixes == 2

\* subject lines: up to MaxPrefixes reply or forward marks and a word, or a
\* mark alone
SubjectLines ==
    {p \o <<"hello">> : p \in SeqsUpTo({"Re:", "FW:"}, MaxPrefixes)} \cup {<<"Re:">>}

\* new messages, not replies, with those subject lines
SubjectEmails ==
    {[message_id |-> m, in_reply_to |-> "", from_email |-> "alice@example.com",
      subject |-> s, body_text |-> <<LongPhrase, "hello">>, body_html |-> <<>>,
      headers |-> {}] :
        m \in {"m1"}, s \in SubjectLines}

\* both entry points, without a statistical model
InitSubjects ==
    /\ InitClassifierIdle
    /\ InitTables
    /\ InitRouting2
    /\ settings = DefaultSettings
    /\ unique_message_id = TRUE
    /\ email_accounts = {"support@helpdesk.example"}
    /\ users = {Agent}

NextSubjects ==
    \/ \E e \in SubjectEmails : ProcessEmailToTicket(e)
    \/ \E e \in SubjectEmails : ReceiveEmailWebhook(e)

SpecSubjects == InitSubjects /\ [][NextSubjects]_vars

\* the SLA definitions an administrator may have created before the intake
\* runs: none, or definitions for the priority "medium"
MediumSla(minutes) ==
    [priority |-> "medium", is_active |-> TRUE, response_time_minutes |-> minutes,
     resolution_time_minutes |-> 2 * minutes]

SlaSetups == {<<>>, <<MediumSla(1)>>, <<MediumSla(1), MediumSla(2)>>}

\* the intake on a store with SLA definitions and without routing rules
InitDefaults ==
    /\ InitClassifierIdle
    /\ tickets = <<>>
    /\ email_messages = <<>>
    /\ email_threads = <<>>
    /\ messages = <<>>
    /\ ticket_tags = <<>>
    /\ routing_logs = <<>>
    /\ calls = <<>>
    /\ lastCall = NoCall
    /\ tags = {}
    /\ routing_rules = <<>>
    /\ settings = DefaultSettings
    /\ unique_message_id = TRUE
    /\ email_accounts = {"support@helpdesk.example"}
    /\ users \in {{Agent}, {Agent, Alice}}
    /\ sla_definitions \in SlaSetups
    /\ now = 0

SpecDefaults == InitDefaults /\ [][NextSubjects]_vars

\* main.py 4000-4028: create_routing_rule gives a rule the organization of the
\* admin who creates it, or none; the two rules of InitRouting2 with any owners
ScopedRuleSets ==
    {<<[Rule(1, 10, NoConditions, "set_priority", "high")
            EXCEPT !.organization_id = o[1]],
       [Rule(2, 5, [NoConditions EXCEPT !.keywords = {"order"}],
             "assign_to_agent", "agent@example.com")
            EXCEPT !.organization_id = o[2]]>> :
        o \in {"None", "org-a"} \X {"None", "org-a"}}

\* the polling service with rules of an organization and global rules
InitScope ==
    /\ InitClassifierIdle
    /\ InitTables
    /\ tags = {[id |-> 1, name |-> "vip"]}
    /\ routing_rules \in ScopedRuleSets
    /\ settings = DefaultSettings
    /\ unique_message_id = TRUE
    /\ email_accounts = {"support@helpdesk.example"}
    /\ users = {Agent}

SpecScope == InitScope /\ [][NextPoll]_vars

----------------------------------------------------------------------------
(* Concurrent intake: two workers, each call advancing one store call at a  *)
(* time, the store calls of the two interleaved in any order                *)

Workers == {"w1", "w2"}

IdleCall == [StartCall("none", NoEmail) EXCEPT !.pc = "idle"]

Running(w) == calls[w].pc \notin {"idle", "done"}

\* the messages delivered concurrently: a new message, and two replies to it
ConcurrentEmails ==
    {[message_id |-> h[1], in_reply_to |-> h[2], from_email |-> "alice@example.com",
      subject |-> <<"hello">>, body_text |-> <<LongPhrase, "hello">>,
      body_html |-> <<>>, headers |-> {}] :
        h \in {<<"m1", "">>, <<"m2", "m1">>, <<"", "m1">>}}

InitConcurrent ==
    /\ InitClassifierIdle
    /\ tickets = <<>>
    /\ email_messages = <<>>
    /\ email_threads = <<>>
    /\ messages = <<>>
    /\ ticket_tags = <<>>
    /\ routing_logs = <<>>
    /\ sla_definitions = <<>>
    /\ now = 0
    /\ lastCall = NoCall
    /\ calls = [w \in Workers |-> IdleCall]
    /\ InitRouting2
    /\ settings = DefaultSettings
    /\ unique_message_id \in BOOLEAN
    /\ email_accounts = {"support@helpdesk.example"}
    /\ users = {Agent}

\* worker w receives email e through entry point op
BeginCall(w, op, e) ==
    /\ ~Running(w)
    /\ Len(tickets) < MaxTickets
    /\ Len(email_messages) < MaxEmailMessages
    /\ calls' = [v \in Workers |->
                    IF v = w
                    THEN [StartCall(op, e) EXCEPT
                              !.overlapped = \E u \in Workers \ {w} : Running(u)]
                    ELSE IF Running(v)
                    THEN [calls[v] EXCEPT !.overlapped = TRUE]
                    ELSE calls[v]]
    /\ UNCHANGED <<classifyVars, ml_model, configVars, slaVars, tableVars, lastCall>>

\* the call of worker w makes its next call to the store
StepCall(w) ==
    /\ Running(w)
    /\ \E pk \in Picks(calls[w].e) :
          \E st \in {Step([db |-> DB, loc |-> calls[w]], pk)} :
              /\ tickets' = st.db.tickets
              /\ email_messages' = st.db.email_messages
              /\ email_threads' = st.db.email_threads
              /\ messages' = st.db.messages
              /\ ticket_tags' = st.db.ticket_tags
              /\ routing_logs' = st.db.routing_logs
              /\ calls' = [calls EXCEPT ![w] = st.loc]
    /\ UNCHANGED <<classifyVars, ml_model, configVars, slaVars, lastCall>>

NextConcurrent ==
    \/ \E w \in Workers, op \in {"poll", "webhook"}, e \in ConcurrentEmails :
           BeginCall(w, op, e)
    \/ \E w \in Workers : StepCall(w)

SpecConcurrent == InitConcurrent /\ [][NextConcurrent]_vars

----------------------------------------------------------------------------
(* Routing on its own: one ticket, three rules, an administrator who sets   *)
(* the ticket's category, and passes of apply_routing_rules                 *)

MaxRoutingLogs == 3

\* the rule sets: a set_priority rule first and last, any rule in between
RuleSets ==
    {<<Rule(1, p[1], c1, "set_priority", "high"),
       Rule(2, p[2], c2, a2[1], a2[2]),
       Rule(3, p[3], c3, "set_priority", "low")>> :
        p \in {<<10, 7, 5>>, <<5, 7, 10>>, <<10, 5, 5>>},
        c1 \in {NoConditions, [NoConditions EXCEPT !.priority = {"medium"}]},
        c2 \in {NoConditions,
                [NoConditions EXCEPT !.keywords = {"ORDER"}],
                [NoConditions EXCEPT !.issue_types = {"billing"}],
                [NoConditions EXCEPT !.tags = {"vip"}],
                [NoConditions EXCEPT !.context = {"Email"}],
                [NoConditions EXCEPT !.priority = {"HIGH"}]},
        a2 \in {<<"set_priority", "urgent">>, <<"set_category", "billing question">>,
                <<"add_tag", "vip">>, <<"assign_to_agent", "agent@example.com">>},
        c3 \in {NoConditions, [NoConditions EXCEPT !.priority = {"medium"}]}}

\* the values PUT /ticket/{id}/category may carry: TicketCategoryRequest.category
\* is `str | None`
Categories == {"None", "general", "billing question"}

InitRouting ==
    /\ InitClassifierIdle
    /\ settings = DefaultSettings
    /\ unique_message_id = TRUE
    /\ email_accounts = {"support@helpdesk.example"}
    /\ users = {Agent}
    /\ tags = {[id |-> 1, name |-> "vip"]}
    /\ routing_rules \in RuleSets
    /\ \E c \in Categories \ {"None"} :
           tickets = <<[context |-> "email", subject |-> <<"hello">>, status |-> "open",
                        priority |-> "medium", user_id |-> "None", source |-> "email",
                        assigned_to |-> "None", category |-> c,
                        organization_id |-> "None"]>>
    /\ email_messages = <<>>
    /\ email_threads = <<>>
    /\ messages = <<[ticket_id |-> 1, sender |-> "customer",
                     message |-> <<"Email", "received", "from", "alice@example.com",
                                   LongPhrase>>]>>
    /\ ticket_tags \in {<<>>, <<[ticket_id |-> 1, tag_id |-> 1]>>}
    /\ routing_logs = <<>>
    /\ sla_definitions = <<>>
    /\ now = 0
    /\ calls = <<>>
    /\ lastCall = NoCall

\* set_ticket_category (PUT /ticket/{ticket_id}/category) by an admin
SetTicketCategory(ticket_id, category) ==
    /\ ticket_id \in DOMAIN tickets
    /\ tickets' = [tickets EXCEPT ![ticket_id].category = category]
    /\ lastCall' = [call |-> [op |-> "set_category", outcome |-> "ok"], before |-> DB]
    /\ UNCHANGED <<classifyVars, ml_model, configVars, slaVars, email_messages, email_threads,
                   messages, ticket_tags, routing_logs, calls>>

\* routing_service.apply_routing_rules(ticket_id)
ApplyRoutingRules(ticket_id) ==
    /\ Len(routing_logs) < MaxRoutingLogs
    /\ \E order \in SortedOrders :
          \E r \in {apply_routing_rules(DB, ticket_id, "None", order)} :
              /\ tickets' = r.db.tickets
              /\ ticket_tags' = r.db.ticket_tags
              /\ routing_logs' = r.db.routing_logs
              /\ lastCall' = [call |-> [op |-> "route", ticket_id |-> ticket_id,
                                        success |-> r.success,
                                        outcome |-> IF r.success THEN "ok" ELSE "error",
                                        previous |-> lastCall.call.op],
                              before |-> DB]
    /\ UNCHANGED <<classifyVars, ml_model, configVars, slaVars, email_messages, email_threads,
                   messages, calls>>

NextRouting ==
    \/ \E c \in Categories : SetTicketCategory(1, c)
    \/ ApplyRoutingRules(1)

SpecRouting == InitRouting /\ [][NextRouting]_vars

\* actions _apply_rule_action cannot apply with the users and tags of
\* InitActions: no such user, a user who is no admin, a value outside the
\* enum, a tag that does not exist
InapplicableActions ==
    {<<"assign_to_agent", "nobody@example.com">>,
     <<"assign_to_agent", "alice@example.com">>,
     <<"set_priority", "critical">>,
     <<"add_tag", "missing">>}

ApplicableActions ==
    {<<"set_priority", "URGENT">>, <<"add_tag", "vip">>,
     <<"assign_to_agent", "Agent@Example.com">>}

\* three rules in descending priority; the first and the last carry any action,
\* the second sets the category and may test the issue type
ActionRuleSets ==
    {<<Rule(1, 10, NoConditions, a1[1], a1[2]),
       Rule(2, 7, c2, "set_category", "general"),
       Rule(3, 5, NoConditions, a3[1], a3[2])>> :
        a1 \in InapplicableActions \cup ApplicableActions,
        c2 \in {NoConditions, [NoConditions EXCEPT !.issue_types = {"billing"}]},
        a3 \in InapplicableActions \cup ApplicableActions}

\* one ticket as the email intake creates it, in a store with an admin, a
\* customer and one tag
InitActions ==
    /\ InitClassifierIdle
    /\ settings = DefaultSettings
    /\ unique_message_id = TRUE
    /\ email_accounts = {"support@helpdesk.example"}
    /\ users = {Agent, Alice}
    /\ tags = {[id |-> 1, name |-> "vip"]}
    /\ routing_rules \in ActionRuleSets
    /\ tickets = <<[context |-> "email", subject |-> <<"hello">>, status |-> "open",
                    priority |-> "medium", user_id |-> "None", source |-> "email",
                    assigned_to |-> "None", category |-> "None",
                    organization_id |-> "None"]>>
    /\ email_messages = <<>>
    /\ email_threads = <<>>
    /\ messages = <<[ticket_id |-> 1, sender |-> "customer",
                     message |-> <<"Email", "received", "from", "alice@example.com",
                                   LongPhrase>>]>>
    /\ ticket_tags = <<>>
    /\ routing_logs = <<>>
    /\ sla_definitions = <<>>
    /\ now = 0
    /\ calls = <<>>
    /\ lastCall = NoCall

SpecActions == InitActions /\ [][NextRouting]_vars

----------------------------------------------------------------------------
(* The classifier on its own: a message is drawn, classified, and a spam    *)
(* keyword is added to it once                                              *)

Senders == {"alice@example.com", "deals@promo.shop.com"}

Messages ==
    {[message_id |-> "", in_reply_to |-> r, from_email |-> f, subject |-> s,
      body_text |-> b, body_html |-> <<>>, headers |-> h] :
        r \in {"", "m1"}, f \in Senders,
        s \in SeqsUpTo(Vocabulary, MaxSubjectWords),
        b \in SeqsUpTo(Vocabulary, MaxBodyWords),
        h \in {{}, {"List-Unsubscribe"}}}

\* what the statistical model may hold: nothing, a failing model, or class
\* probabilities <<ham, spam, promotion>> in hundredths
Models ==
    {[state |-> "none", probabilities |-> <<>>],
     [state |-> "error", probabilities |-> <<>>]}
    \cup {[state |-> "trained", probabilities |-> p] :
            p \in {<<80, 10, 10>>, <<10, 80, 10>>, <<10, 10, 80>>, <<30, 50, 20>>,
                   <<0, 100, 0>>, <<0, 0, 100>>}}

SpamWords == {w \in Vocabulary : KeywordsWithin(w) \cap spam_keywords # {}}

InitClassify ==
    /\ parsed_email \in Messages
    /\ classification = NoResult
    /\ baseline = NoResult
    /\ ml_model \in Models
    /\ settings \in {DefaultSettings,
                     [DefaultSettings EXCEPT !.email_ml_classifier_enabled = FALSE]}
    /\ (~settings.email_ml_classifier_enabled => ml_model.probabilities = <<10, 80, 10>>)
    /\ unique_message_id = TRUE
    /\ email_accounts = {}
    /\ users = {}
    /\ tags = {}
    /\ routing_rules = <<>>
    /\ InitTables

\* spam_classifier.classify(parsed_email)
Classify ==
    /\ classification = NoResult
    /\ classification' = classify(parsed_email, settings.email_ml_classifier_enabled,
                                  ml_model)
    /\ UNCHANGED <<parsed_email, baseline, ml_model, configVars, tableVars, slaVars,
                   calls, lastCall>>

\* one more occurrence of a spam keyword is put into the subject or the body
\* of the classified message, and the message is classified again
AddSpamKeyword(w, field) ==
    /\ classification # NoResult
    /\ baseline = NoResult
    /\ parsed_email' = [parsed_email EXCEPT ![field] = Append(@, w)]
    /\ baseline' = [category |-> "classified", field |-> field,
                    email |-> parsed_email,
                    spam_score |-> classification.spam_score]
    /\ classification' = classify(parsed_email', settings.email_ml_classifier_enabled,
                                  ml_model)
    /\ UNCHANGED <<ml_model, configVars, tableVars, slaVars, calls, lastCall>>

NextClassify ==
    \/ Classify
    \/ \E w \in SpamWords, field \in {"subject", "body_text"} : AddSpamKeyword(w, field)

SpecClassify == InitClassify /\ [][NextClassify]_vars

----------------------------------------------------------------------------
(* Properties of the sequential intake.  lastCall.call is the call that     *)
(* finished last and lastCall.before the tables as it found them.           *)

Polled == lastCall.call.op = "poll"
Webhooked == lastCall.call.op = "webhook"

\* message e has been ingested into db as ticket T: one EmailMessage holds
\* its message_id, and it is e's row, received, on ticket T
Ingested(db, e, T) ==
    /\ T # 0
    /\ Cardinality(EmailIdsByMessageId(db, e.message_id)) = 1
    /\ \A i \in EmailIdsByMessageId(db, e.message_id) :
           db.email_messages[i] = EmailRow(e, T, "received")

\* the last call left tickets, email messages, thread entries and ticket
\* messages as it found them
NothingStored ==
    /\ tickets = lastCall.before.tickets
    /\ email_messages = lastCall.before.email_messages
    /\ email_threads = lastCall.before.email_threads
    /\ messages = lastCall.before.messages

C2_WebhookIdempotence ==
    /\ \A mid \in {"m1", "m2"} : Cardinality(EmailIdsByMessageId(DB, mid)) <= 1
    /\ (Webhooked /\ lastCall.call.e.message_id # ""
                  /\ lastCall.call.e.in_reply_to = "") =>
           \A T \in 1..Len(lastCall.before.tickets) :
               Ingested(lastCall.before, lastCall.call.e, T) =>
                   lastCall.call.ret = T /\ NothingStored

\* the thread entries of ticket t, in the order they were appended
ThreadEntries(t) == {i \in DOMAIN email_threads : email_threads[i].ticket_id = t}

Classification(e) ==
    classify(e, settings.email_ml_classifier_enabled, ml_model)

\* the in_reply_to of e is the message_id of a stored EmailMessage
Resolves(db, e) ==
    e.in_reply_to # "" /\ EmailIdsByMessageId(db, e.in_reply_to) # {}

\* C7: a message whose in_reply_to resolves to a stored EmailMessage is
\* classified ham, neither spam nor promotion, whatever its scores, and
\* process_email_to_ticket does not filter it
C7_ReplyOverride ==
    (Polled /\ Resolves(lastCall.before, lastCall.call.e)) =>
        /\ ~Classification(lastCall.call.e).is_spam
        /\ ~Classification(lastCall.call.e).is_promotion
        /\ Classification(lastCall.call.e).category = "ham"
        /\ lastCall.call.outcome # "filtered"

\* C7 witness: a reply with a spam score of 0.5 or more was appended to the
\* ticket of the message it answers
C7_Witness ==
    /\ Polled
    /\ Resolves(lastCall.before, lastCall.call.e)
    /\ Classification(lastCall.call.e).spam_score >= 50
    /\ lastCall.call.outcome = "ok"
    /\ lastCall.call.created = 0
    /\ Len(email_messages) = Len(lastCall.before.email_messages) + 1

\* classify marks e spam, or promotion while filter_promotions is on
MarkedForFilter(e) ==
    \/ Classification(e).is_spam
    \/ settings.email_filter_promotions /\ Classification(e).is_promotion

\* the last call returned no ticket and stored no ticket, no received
\* EmailMessage, no thread entry and no ticket message
Dropped ==
    /\ lastCall.call.ret = 0
    /\ tickets = lastCall.before.tickets
    /\ email_threads = lastCall.before.email_threads
    /\ messages = lastCall.before.messages
    /\ \A i \in DOMAIN email_messages :
           i > Len(lastCall.before.email_messages) =>
               email_messages[i].status # "received"

----------------------------------------------------------------------------
(* Properties of the classifier *)

Classified == classification # NoResult

BothScoresHigh ==
    /\ Classified
    /\ classification.spam_score >= 50
    /\ classification.promotion_score >= 50

\* C6 as stated: a result with spam_score >= 0.5 and promotion_score >= 0.5
\* has is_spam true and is_promotion false
C6_SpamPrecedence ==
    BothScoresHigh => classification.is_spam /\ ~classification.is_promotion

\* C6, amended: for a message without in_reply_to, a result with
\* spam_score >= 0.5 and promotion_score >= 0.5 has is_spam true and
\* is_promotion false
C6_SpamPrecedenceNoReply ==
    (BothScoresHigh /\ parsed_email.in_reply_to = "") =>
        classification.is_spam /\ ~classification.is_promotion

\* C6 witness: a message without in_reply_to scored 0.5 or more on both
\* scales and came out as spam
C6_Witness ==
    /\ BothScoresHigh
    /\ parsed_email.in_reply_to = ""
    /\ classification.category = "spam"

\* a spam keyword was added to the classified message with the model disabled
KeywordAdded ==
    /\ baseline # NoResult
    /\ ~settings.email_ml_classifier_enabled

\* the added keyword took a body of under 50 characters to 50 or more, on a
\* message without in_reply_to: the short-body signal is lost
BodyOutgrewShort ==
    /\ baseline.field = "body_text"
    /\ parsed_email.in_reply_to = ""
    /\ TextLen(baseline.email.body_text) < 50
    /\ TextLen(parsed_email.body_text) >= 50

\* C8 as stated: with the model disabled, one more occurrence of a spam
\* keyword in the subject or the body never lowers spam_score
C8_ScoreMonotonicity ==
    KeywordAdded => classification.spam_score >= baseline.spam_score

\* C8, amended: with the model disabled, one more occurrence of a spam keyword
\* never lowers spam_score unless it takes the body of a message without
\* in_reply_to from under 50 characters to 50 or more
C8_ScoreMonotonicityBodyLength ==
    (KeywordAdded /\ ~BodyOutgrewShort) =>
        classification.spam_score >= baseline.spam_score

\* C8 witness: a second spam keyword was added to a subject that held one,
\* and the score did not move
C8_Witness ==
    /\ KeywordAdded
    /\ baseline.field = "subject"
    /\ KeywordMatches(spam_keywords, LowerText(baseline.email.subject)) = 1
    /\ KeywordMatches(spam_keywords, LowerText(parsed_email.subject)) = 2
    /\ classification.spam_score = baseline.spam_score

----------------------------------------------------------------------------
(* Properties of the concurrent intake *)

\* the calls of workers v and w both ran to their end, each with the other
\* in progress
FinishedTogether(v, w) ==
    /\ v # w
    /\ calls[v].pc = "done" /\ calls[w].pc = "done"
    /\ calls[v].overlapped /\ calls[w].overlapped

\* C3: with message_id unique in the store, two concurrent deliveries of one
\* message (no in_reply_to) end with one EmailMessage and one ticket for it,
\* no ticket without an EmailMessage, and no error for either caller
C3_ConcurrentDeliveries ==
    \A v \in Workers, w \in Workers :
        (/\ FinishedTogether(v, w)
         /\ unique_message_id
         /\ calls[v].e.message_id # ""
         /\ calls[v].e.message_id = calls[w].e.message_id
         /\ calls[v].e.in_reply_to = "" /\ calls[w].e.in_reply_to = "") =>
            /\ Cardinality(EmailIdsByMessageId(DB, calls[v].e.message_id)) = 1
            /\ \A t \in {calls[v].created, calls[w].created} \ {0} :
                   \E i \in DOMAIN email_messages : email_messages[i].ticket_id = t
            /\ calls[v].outcome # "error" /\ calls[w].outcome # "error"

\* the call of worker w appended its email to a ticket that existed already
AppendedReply(w) ==
    /\ calls[w].pc = "done"
    /\ calls[w].outcome = "ok"
    /\ calls[w].created = 0
    /\ calls[w].email_id # 0

\* the thread_position given to the email of the call of worker w
PositionOf(w) ==
    {email_threads[i].thread_position :
        i \in {j \in DOMAIN email_threads :
                  email_threads[j].email_message_id = calls[w].email_id}}

\* C5: two distinct replies appended concurrently to one ticket never get the
\* same thread_position
C5_ConcurrentThreadPositions ==
    \A v \in Workers, w \in Workers :
        (/\ FinishedTogether(v, w)
         /\ AppendedReply(v) /\ AppendedReply(w)
         /\ calls[v].email_id # calls[w].email_id
         /\ calls[v].ticket_id = calls[w].ticket_id) =>
            PositionOf(v) \cap PositionOf(w) = {}

----------------------------------------------------------------------------
(* Properties of routing *)

Routed == lastCall.call.op = "route"

\* the rules that match the ticket as the last pass found it
MatchingRules ==
    LET db == lastCall.before
        ticket_id == lastCall.call.ticket_id
        ticket == db.tickets[ticket_id]
    IN  {i \in DOMAIN routing_rules :
            /\ routing_rules[i].is_active
            /\ _rule_matches(routing_rules[i], ticket,
                             LowerText(TicketText(db, ticket_id)),
                             LowerText(ticket.subject), Lower(ticket.context),
                             TicketTagIds(db, ticket_id)) = "match"}

\* the matching set_priority rules, and those of them with the lowest priority
MatchingPriorityRules ==
    {i \in MatchingRules : routing_rules[i].action_type = "set_priority"}

LowestPriorityRules ==
    {i \in MatchingPriorityRules :
        \A j \in MatchingPriorityRules :
            routing_rules[i].priority <= routing_rules[j].priority}

\* the rules the last pass applied, in the order it logged them
AppliedRules ==
    [k \in 1..(Len(routing_logs) - Len(lastCall.before.routing_logs)) |->
        routing_logs[Len(lastCall.before.routing_logs) + k].routing_rule_id]

\* C10: a pass of apply_routing_rules applies every matching active rule in
\* descending rule priority, so the ticket's priority ends as the value of the
\* matching set_priority rule with the lowest rule priority number
C10_LaterWritesWin ==
    Routed =>
        /\ \A i \in MatchingRules : routing_rules[i].id \in Range(AppliedRules)
        /\ \A a, b \in DOMAIN AppliedRules :
               a < b => routing_rules[AppliedRules[a]].priority
                            >= routing_rules[AppliedRules[b]].priority
        /\ MatchingPriorityRules # {} =>
               tickets[lastCall.call.ticket_id].priority
                   \in {Lower(routing_rules[i].action_value) : i \in LowestPriorityRules}

\* the last two operations were passes of apply_routing_rules on one ticket
RoutedTwice == Routed /\ lastCall.call.previous = "route"

\* C11: a second pass of apply_routing_rules right after a first one, on the
\* same rules, leaves the ticket's assigned_to, status, priority, category
\* and tag set as the first pass left them
C11_RoutingIdempotence ==
    RoutedTwice =>
        /\ tickets[lastCall.call.ticket_id] =
               lastCall.before.tickets[lastCall.call.ticket_id]
        /\ TicketTagIds(DB, lastCall.call.ticket_id) =
               TicketTagIds(lastCall.before, lastCall.call.ticket_id)

----------------------------------------------------------------------------
(* Further properties of the sequential intake *)

\* C12: an intake call that succeeds has run apply_routing_rules once on the
\* ticket it created, and on no ticket when it created none
C12_RoutingOnCreation ==
    ((Polled \/ Webhooked) /\ lastCall.call.outcome = "ok") =>
        lastCall.call.routed = lastCall.call.created

----------------------------------------------------------------------------
(* AI replies: retry with backoff *)

\* the largest openai_max_retries the model configures
MaxRetries == 3

\* config.Settings, the AI part: delays in milliseconds, the multiplier in
\* tenths (2.0 is 20)
DefaultAiSettings ==
    [openai_max_retries |-> 3, openai_initial_delay |-> 500,
     openai_backoff_multiplier |-> 20,
     ai_reply_window_seconds |-> 60, ai_reply_max_per_window |-> 2]

\* an entry of the trace of generate_ai_reply: a call of the model client and
\* whether it answered, or a time.sleep(delay)
ClientCall(ok) == [ev |-> "call", ok |-> ok, delay |-> 0]
Slept(delay) == [ev |-> "sleep", ok |-> FALSE, delay |-> delay]

\* the loop of generate_ai_reply from `attempt` on, with a backoff that never grows
RECURSIVE AttemptsFixedDelay(_, _, _, _, _)
AttemptsFixedDelay(cfg, responses, attempt, delay, trace) ==
    IF attempt > cfg.openai_max_retries
    THEN [returned |-> FALSE, raised |-> FALSE, trace |-> trace]
    ELSE IF responses[attempt + 1]
    THEN [returned |-> TRUE, raised |-> FALSE, trace |-> Append(trace, ClientCall(TRUE))]
    ELSE IF attempt < cfg.openai_max_retries
    THEN AttemptsFixedDelay(cfg, responses, attempt + 1, delay,
                            trace \o <<ClientCall(FALSE), Slept(delay)>>)
    ELSE [returned |-> FALSE, raised |-> TRUE, trace |-> Append(trace, ClientCall(FALSE))]

\* main.py 716-736: `for attempt in range(max_retries + 1)` from `attempt` on;
\* responses[attempt + 1] tells whether the client answers that attempt
RECURSIVE Attempts(_, _, _, _, _)
Attempts(cfg, responses, attempt, delay, trace) ==
    IF attempt > cfg.openai_max_retries
    THEN [returned |-> FALSE, raised |-> FALSE, trace |-> trace]
    ELSE IF responses[attempt + 1]
    THEN [returned |-> TRUE, raised |-> FALSE, trace |-> Append(trace, ClientCall(TRUE))]
    ELSE IF attempt < cfg.openai_max_retries
    THEN Attempts(cfg, responses, attempt + 1,
                  (delay * cfg.openai_backoff_multiplier) \div 10,
                  trace \o <<ClientCall(FALSE), Slept(delay)>>)
    ELSE [returned |-> FALSE, raised |-> TRUE, trace |-> Append(trace, ClientCall(FALSE))]

\* main.py 694-736
generate_ai_reply(cfg, responses) ==
    Attempts(cfg, responses, 0, cfg.openai_initial_delay, <<>>)

\* what the model client does on each of the attempts a call can make
Responses(cfg) == [1..(cfg.openai_max_retries + 1) -> BOOLEAN]

\* every configuration config.Settings accepts (config.py 54-67: the retry
\* count and the delays are positive), up to MaxRetries retries
InitRetry ==
    /\ InitClassifierIdle
    /\ InitTables
    /\ InitRouting2
    /\ unique_message_id = TRUE
    /\ email_accounts = {}
    /\ users = {}
    /\ settings \in [openai_max_retries : 1..MaxRetries,
                     openai_initial_delay : {500, 1000},
                     openai_backoff_multiplier : {10, 20},
                     ai_reply_window_seconds : {60},
                     ai_reply_max_per_window : {2}]

GenerateAiReply(responses) ==
    /\ \E r \in {generate_ai_reply(settings, responses)} :
           lastCall' = [call |-> [op |-> "generate_ai_reply", outcome |-> "none",
                                  responses |-> responses, returned |-> r.returned,
                                  raised |-> r.raised, trace |-> r.trace]]
    /\ UNCHANGED <<classifyVars, ml_model, configVars, tableVars, slaVars, calls>>

NextRetry == \E responses \in Responses(settings) : GenerateAiReply(responses)

SpecRetry == InitRetry /\ [][NextRetry]_vars

\* generate_ai_reply was the last operation
Generated == lastCall.call.op = "generate_ai_reply"

\* the positions of the trace where the model client was called
ClientCalls == {i \in DOMAIN lastCall.call.trace : lastCall.call.trace[i].ev = "call"}

\* openai_initial_delay * openai_backoff_multiplier ^ k
RECURSIVE BackoffDelay(_)
BackoffDelay(k) ==
    IF k = 0 THEN settings.openai_initial_delay
    ELSE (BackoffDelay(k - 1) * settings.openai_backoff_multiplier) \div 10

\* C19: generate_ai_reply calls the model at most openai_max_retries + 1
\* times, returns on the first call that answers and calls no more, sleeps
\* once between two consecutive calls with a delay that starts at
\* openai_initial_delay and is multiplied by openai_backoff_multiplier after
\* each failure, and when every call fails raises without a sleep after the last
C19_AiReplyRetry ==
    Generated =>
        LET trace == lastCall.call.trace IN
        /\ Cardinality(ClientCalls) <= settings.openai_max_retries + 1
        /\ \A i \in DOMAIN trace : trace[i].ev = (IF i % 2 = 1 THEN "call" ELSE "sleep")
        /\ Len(trace) % 2 = 1
        /\ \A i \in DOMAIN trace : trace[i].ok => i = Len(trace)
        /\ lastCall.call.returned <=> trace[Len(trace)].ok
        /\ lastCall.call.raised <=> ~trace[Len(trace)].ok
        /\ \A i \in ClientCalls :
               /\ trace[i].ok <=> lastCall.call.responses[(i + 1) \div 2]
               /\ i < Len(trace) => trace[i + 1].delay = BackoffDelay((i - 1) \div 2)
        /\ lastCall.call.raised =>
               Cardinality(ClientCalls) = settings.openai_max_retries + 1

\* three retries fail after sleeps of 0.5 s, 1 s and 2 s and the fourth call raises
C19_Witness ==
    /\ Generated
    /\ settings = DefaultAiSettings
    /\ lastCall.call.raised
    /\ lastCall.call.trace =
           <<ClientCall(FALSE), Slept(500), ClientCall(FALSE), Slept(1000),
             ClientCall(FALSE), Slept(2000), ClientCall(FALSE)>>

----------------------------------------------------------------------------
(* The web form: POST /ticket and POST /ticket/{ticket_id}/reply *)

\* the most rows table messages holds when the rate limit is studied and when
\* the matching of tickets is, the last instant of the clock and the seconds
\* between two instants
MaxMessages == 5
MaxWebMessages == 3
MaxNow == 120
TickSeconds == 60

\* a timestamp column that is null
NoTime == -1

Bob == [email |-> "bob@example.com", role |-> "customer"]

\* main.py 803-814: the row create_or_continue_ticket inserts
WebTicket(req, priority, sla_id, user_id, t) ==
    [context |-> req.context, subject |-> req.subject, status |-> "open",
     priority |-> priority, sla_id |-> sla_id, user_id |-> user_id,
     source |-> "web", assigned_to |-> "None", category |-> "None",
     organization_id |-> "None", created_at |-> t, first_response_at |-> NoTime]

\* main.py 767-776: the open tickets of the user with the context and subject
OpenTicketIds(tks, req, user_id) ==
    {i \in DOMAIN tks :
        /\ tks[i].context = req.context
        /\ tks[i].subject = req.subject
        /\ tks[i].status = "open"
        /\ tks[i].user_id = user_id}

\* sla_definitions .eq("priority", p).eq("is_active", True): the ids found
ActiveSlaIds(slas, priority) ==
    {i \in DOMAIN slas : slas[i].priority = priority /\ slas[i].is_active}

\* ... .order("created_at", desc=True).limit(1): the id found, 0 when none is
LatestSlaId(slas, priority) ==
    IF ActiveSlaIds(slas, priority) = {} THEN 0
    ELSE CHOOSE i \in ActiveSlaIds(slas, priority) :
             \A j \in ActiveSlaIds(slas, priority) : j <= i

\* messages .eq("ticket_id", id).eq("sender", "ai").gte("created_at", start)
AiRepliesSince(msgs, ticket_id, start) ==
    {i \in DOMAIN msgs :
        /\ msgs[i].ticket_id = ticket_id
        /\ msgs[i].sender = "ai"
        /\ msgs[i].created_at >= start}

\* is_rate_limited with `>` for `>=`
is_rate_limited_above(msgs, ticket_id, cfg, t, query_fails) ==
    IF query_fails
    THEN [limited |-> FALSE, counted |-> FALSE, ai_replies_in_window |-> 0]
    ELSE LET count == Cardinality(AiRepliesSince(msgs, ticket_id,
                                                 t - cfg.ai_reply_window_seconds))
         IN  [limited |-> count > cfg.ai_reply_max_per_window,
              counted |-> TRUE, ai_replies_in_window |-> count]

\* main.py 643-666; counted is FALSE for the empty dict of the except branch
is_rate_limited(msgs, ticket_id, cfg, t, query_fails) ==
    IF query_fails
    THEN [limited |-> FALSE, counted |-> FALSE, ai_replies_in_window |-> 0]
    ELSE LET count == Cardinality(AiRepliesSince(msgs, ticket_id,
                                                 t - cfg.ai_reply_window_seconds))
         IN  [limited |-> count >= cfg.ai_reply_max_per_window,
              counted |-> TRUE, ai_replies_in_window |-> count]

NoRateCheck == [limited |-> FALSE, counted |-> FALSE, ai_replies_in_window |-> -1]

WebMessage(ticket_id, sender, t) ==
    [ticket_id |-> ticket_id, sender |-> sender, message |-> <<"hello">>,
     created_at |-> t]

\* AnswerTicket without the check of the assigned agent
AnswerTicketByAi(db, ticket, ticket_id, cfg, t, query_fails, responses) ==
    LET db1 == [db EXCEPT !.messages = Append(@, WebMessage(ticket_id, "customer", t))]
        rate == is_rate_limited(db1.messages, ticket_id, cfg, t, query_fails)
        reply == generate_ai_reply(cfg, responses)
    IN  IF rate.limited
        THEN [db |-> db1, outcome |-> "rate_limited", rate |-> rate,
              agent |-> "None", generated |-> FALSE]
        ELSE IF ~reply.returned
        THEN [db |-> db1, outcome |-> "raise", rate |-> rate,
              agent |-> "None", generated |-> TRUE]
        ELSE [db |-> [db1 EXCEPT !.messages = Append(@, WebMessage(ticket_id, "ai", t))],
              outcome |-> "reply", rate |-> rate, agent |-> "None", generated |-> TRUE]

\* main.py 842-908, and the same code at 958-1021: the customer message is
\* stored, then the reply of the assigned human, the rate limit or the model;
\* agent is the agent the reply names, generated whether generate_ai_reply ran
AnswerTicket(db, ticket, ticket_id, cfg, t, query_fails, responses) ==
    LET db1 == [db EXCEPT !.messages = Append(@, WebMessage(ticket_id, "customer", t))]
        rate == is_rate_limited(db1.messages, ticket_id, cfg, t, query_fails)
        reply == generate_ai_reply(cfg, responses)
    IN  IF ticket.assigned_to # "None"
        THEN [db |-> db1, outcome |-> "human", rate |-> NoRateCheck,
              agent |-> ticket.assigned_to, generated |-> FALSE]
        ELSE IF rate.limited
        THEN [db |-> db1, outcome |-> "rate_limited", rate |-> rate,
              agent |-> "None", generated |-> FALSE]
        ELSE IF ~reply.returned
        THEN [db |-> db1, outcome |-> "raise", rate |-> rate,
              agent |-> "None", generated |-> TRUE]
        ELSE [db |-> [db1 EXCEPT !.messages = Append(@, WebMessage(ticket_id, "ai", t))],
              outcome |-> "reply", rate |-> rate, agent |-> "None", generated |-> TRUE]

\* create_or_continue_ticket that never looks for an open ticket
create_or_continue_ticket_always_new(db, slas, req, user_id, pick, cfg, t, query_fails, responses) ==
    LET priority == IF req.priority \in {"low", "medium", "high", "urgent"}
                    THEN req.priority ELSE "medium"
        db1 == [db EXCEPT !.tickets =
                   Append(@, WebTicket(req, priority, LatestSlaId(slas, priority),
                                       user_id, t))]
        ticket_id == Len(db1.tickets)
        a == AnswerTicket(db1, db1.tickets[ticket_id], ticket_id, cfg, t,
                          query_fails, responses)
    IN  [db |-> a.db, outcome |-> a.outcome, rate |-> a.rate, agent |-> a.agent,
         generated |-> a.generated, ticket_id |-> ticket_id, created |-> ticket_id]

\* main.py 743-912; pick is the row the .limit(1) lookup returns.  The
\* inserted ticket has no organization_id, so lines 823-840 route nothing.
create_or_continue_ticket(db, slas, req, user_id, pick, cfg, t, query_fails, responses) ==
    LET priority == IF req.priority \in {"low", "medium", "high", "urgent"}
                    THEN req.priority ELSE "medium"
        db1 == IF pick # 0 THEN db
               ELSE [db EXCEPT !.tickets =
                        Append(@, WebTicket(req, priority, LatestSlaId(slas, priority),
                                            user_id, t))]
        ticket_id == IF pick # 0 THEN pick ELSE Len(db1.tickets)
        a == AnswerTicket(db1, db1.tickets[ticket_id], ticket_id, cfg, t,
                          query_fails, responses)
    IN  [db |-> a.db, outcome |-> a.outcome, rate |-> a.rate, agent |-> a.agent,
         generated |-> a.generated, ticket_id |-> ticket_id,
         created |-> IF pick # 0 THEN 0 ELSE ticket_id]

\* main.py 923-1028
reply_to_existing_ticket(db, ticket_id, user_id, cfg, t, query_fails, responses) ==
    IF ticket_id \notin DOMAIN db.tickets
    THEN [db |-> db, outcome |-> "not_found", rate |-> NoRateCheck, agent |-> "None",
          generated |-> FALSE, ticket_id |-> ticket_id, created |-> 0]
    ELSE IF db.tickets[ticket_id].user_id # user_id
    THEN [db |-> db, outcome |-> "forbidden", rate |-> NoRateCheck, agent |-> "None",
          generated |-> FALSE, ticket_id |-> ticket_id, created |-> 0]
    ELSE LET a == AnswerTicket(db, db.tickets[ticket_id], ticket_id, cfg, t,
                               query_fails, responses)
         IN  [db |-> a.db, outcome |-> a.outcome, rate |-> a.rate, agent |-> a.agent,
              generated |-> a.generated, ticket_id |-> ticket_id, created |-> 0]

\* the client answers every attempt, or none
AiResponses(cfg) ==
    {[i \in 1..(cfg.openai_max_retries + 1) |-> b] : b \in BOOLEAN}

\* the forms the customers send
WebRequests ==
    [context : {"billing"}, subject : {"refund", "login"}, priority : {"high"}]

WebCalls ==
    {<<Alice, r>> : r \in WebRequests}
        \cup {<<Bob, r>> : r \in {q \in WebRequests : q.subject = "refund"}}

SlaCatalogue ==
    <<[priority |-> "high", is_active |-> TRUE, response_time_minutes |-> 1,
       resolution_time_minutes |-> 2]>>

\* two customers and an agent, the default settings, one definition for "high"
InitWeb ==
    /\ InitClassifierIdle
    /\ tickets = <<>>
    /\ email_messages = <<>>
    /\ email_threads = <<>>
    /\ messages = <<>>
    /\ ticket_tags = <<>>
    /\ routing_logs = <<>>
    /\ calls = <<>>
    /\ lastCall = NoCall
    /\ InitRouting2
    /\ unique_message_id = TRUE
    /\ email_accounts = {}
    /\ users = {Agent, Alice, Bob}
    /\ settings = DefaultAiSettings
    /\ sla_definitions = SlaCatalogue
    /\ now = 0

\* the same with one customer
InitRateLimit ==
    /\ InitClassifierIdle
    /\ tickets = <<>>
    /\ email_messages = <<>>
    /\ email_threads = <<>>
    /\ messages = <<>>
    /\ ticket_tags = <<>>
    /\ routing_logs = <<>>
    /\ calls = <<>>
    /\ lastCall = NoCall
    /\ InitRouting2
    /\ unique_message_id = TRUE
    /\ email_accounts = {}
    /\ users = {Agent, Alice}
    /\ settings = DefaultAiSettings
    /\ sla_definitions = SlaCatalogue
    /\ now = 0

CreateOrContinueTicket(req, user, query_fails, responses) ==
    /\ user \in users
    /\ \E pick \in DOMAIN tickets \cup {0} :
         /\ IF OpenTicketIds(tickets, req, user.email) = {} THEN pick = 0
            ELSE pick \in OpenTicketIds(tickets, req, user.email)
         /\ \E r \in {create_or_continue_ticket(DB, sla_definitions, req, user.email,
                                                pick, settings, now, query_fails,
                                                responses)} :
              /\ Len(r.db.tickets) <= MaxTickets
              /\ tickets' = r.db.tickets
              /\ messages' = r.db.messages
              /\ lastCall' = [call |-> [op |-> "create", outcome |-> r.outcome,
                                        req |-> req, user_id |-> user.email,
                                        ticket_id |-> r.ticket_id, created |-> r.created,
                                        query_fails |-> query_fails, rate |-> r.rate,
                                        agent |-> r.agent, generated |-> r.generated,
                                        at |-> now],
                              before |-> DB]
    /\ UNCHANGED <<classifyVars, ml_model, configVars, slaVars, email_messages,
                   email_threads, ticket_tags, routing_logs, calls>>

ReplyToExistingTicket(ticket_id, user, query_fails, responses) ==
    /\ user \in users
    /\ \E r \in {reply_to_existing_ticket(DB, ticket_id, user.email, settings, now,
                                          query_fails, responses)} :
         /\ messages' = r.db.messages
         /\ lastCall' = [call |-> [op |-> "reply", outcome |-> r.outcome,
                                   req |-> [context |-> "", subject |-> "",
                                            priority |-> ""],
                                   user_id |-> user.email,
                                   ticket_id |-> r.ticket_id, created |-> r.created,
                                   query_fails |-> query_fails, rate |-> r.rate,
                                   agent |-> r.agent, generated |-> r.generated,
                                   at |-> now],
                         before |-> DB]
    /\ UNCHANGED <<classifyVars, ml_model, configVars, slaVars, tickets, email_messages,
                   email_threads, ticket_tags, routing_logs, calls>>

\* main.py 2362-2385: close_ticket
CloseTicket(ticket_id) ==
    /\ ticket_id \in DOMAIN tickets
    /\ tickets' = [tickets EXCEPT ![ticket_id].status = "closed"]
    /\ lastCall' = [call |-> [op |-> "close", outcome |-> "ok",
                              ticket_id |-> ticket_id, at |-> now],
                    before |-> DB]
    /\ UNCHANGED <<classifyVars, ml_model, configVars, slaVars, email_messages,
                   email_threads, messages, ticket_tags, routing_logs, calls>>

\* main.py 2341-2360: assign_agent
AssignAgent(ticket_id, agent_name) ==
    /\ ticket_id \in DOMAIN tickets
    /\ tickets' = [tickets EXCEPT ![ticket_id].assigned_to = agent_name,
                                  ![ticket_id].status = "human_assigned"]
    /\ lastCall' = [call |-> [op |-> "assign", outcome |-> "ok",
                              ticket_id |-> ticket_id],
                    before |-> DB]
    /\ UNCHANGED <<classifyVars, ml_model, configVars, slaVars, email_messages,
                   email_threads, messages, ticket_tags, routing_logs, calls>>

\* the clock advances
Tick(seconds, last) ==
    /\ now + seconds <= last
    /\ now' = now + seconds
    /\ UNCHANGED <<classifyVars, ml_model, configVars, tableVars, sla_definitions,
                   calls, lastCall>>

NextWeb ==
    \/ /\ Len(messages) < MaxWebMessages
       /\ \E c \in WebCalls, query_fails \in BOOLEAN,
             responses \in AiResponses(settings) :
              CreateOrContinueTicket(c[2], c[1], query_fails, responses)
    \/ /\ Len(messages) < MaxWebMessages
       /\ \E ticket_id \in 1..MaxTickets, user \in {Alice, Bob},
             query_fails \in BOOLEAN, responses \in AiResponses(settings) :
              ReplyToExistingTicket(ticket_id, user, query_fails, responses)
    \/ \E ticket_id \in 1..MaxTickets : CloseTicket(ticket_id)
    \/ \E ticket_id \in 1..MaxTickets : AssignAgent(ticket_id, Agent.email)
    \/ Tick(TickSeconds, MaxNow)

SpecWeb == InitWeb /\ [][NextWeb]_vars

NextRateLimit ==
    \/ /\ Len(messages) < MaxMessages
       /\ \E c \in WebCalls, query_fails \in BOOLEAN,
             responses \in AiResponses(settings) :
              /\ c[2].subject = "refund"
              /\ CreateOrContinueTicket(c[2], c[1], query_fails, responses)
    \/ /\ Len(messages) < MaxMessages
       /\ \E ticket_id \in 1..MaxTickets, user \in {Alice, Bob},
             query_fails \in BOOLEAN, responses \in AiResponses(settings) :
              ReplyToExistingTicket(ticket_id, user, query_fails, responses)
    \/ \E ticket_id \in 1..MaxTickets : AssignAgent(ticket_id, Agent.email)
    \/ Tick(TickSeconds, MaxNow)

SpecRateLimit == InitRateLimit /\ [][NextRateLimit]_vars

----------------------------------------------------------------------------
(* Priorities and SLAs *)

\* the seconds between two instants and the last instant when SLAs are studied
SlaTickSeconds == 45
MaxSlaNow == 135

NoViolation == [violated |-> FALSE, violation_minutes |-> 0]

\* a violation measured to the clock even when the ticket was answered
ViolationLive(expected, actual, t) ==
    IF t > expected
    THEN [violated |-> TRUE, violation_minutes |-> (t - expected) \div 60]
    ELSE NoViolation

\* main.py 1927-1961 (and 1963-1997 for the resolution): the violation object,
\* NoViolation for None; `actual` is first_response_at or resolved_at
Violation(expected, actual, t) ==
    IF actual # NoTime
    THEN IF actual > expected
         THEN [violated |-> TRUE, violation_minutes |-> (actual - expected) \div 60]
         ELSE NoViolation
    ELSE IF t > expected
         THEN [violated |-> TRUE, violation_minutes |-> (t - expected) \div 60]
         ELSE NoViolation

\* the definition of the ticket's priority, whatever sla_id the ticket has
ResolveSlaByPriority(slas, ticket) == LatestSlaId(slas, ticket.priority)

\* main.py 1852-1881: the id of the definition that applies, 0 when none does
ResolveSla(slas, ticket) ==
    IF /\ ticket.sla_id # 0
       /\ ticket.sla_id \in DOMAIN slas
       /\ slas[ticket.sla_id].is_active
    THEN ticket.sla_id
    ELSE LatestSlaId(slas, ticket.priority)

NoSlaStatus ==
    [sla_defined |-> FALSE, sla_id |-> 0, expected_response |-> NoTime,
     expected_resolution |-> NoTime, response_violation |-> NoViolation,
     resolution_violation |-> NoViolation]

\* main.py 1815-2025; no handler writes resolved_at, which is always null
get_ticket_sla_status(tks, slas, ticket_id, user, t) ==
    IF ticket_id \notin DOMAIN tks
    THEN [outcome |-> "not_found", status |-> NoSlaStatus]
    ELSE IF user.role = "customer" /\ tks[ticket_id].user_id # user.email
    THEN [outcome |-> "forbidden", status |-> NoSlaStatus]
    ELSE LET ticket == tks[ticket_id]
             sla_id == ResolveSla(slas, ticket)
             first_response_time ==
                 ticket.created_at + 60 * slas[sla_id].response_time_minutes
             resolution_time ==
                 ticket.created_at + 60 * slas[sla_id].resolution_time_minutes
         IN  IF sla_id = 0
             THEN [outcome |-> "ok", status |-> NoSlaStatus]
             ELSE [outcome |-> "ok",
                   status |->
                       [sla_defined |-> TRUE, sla_id |-> sla_id,
                        expected_response |-> first_response_time,
                        expected_resolution |-> resolution_time,
                        response_violation |->
                            Violation(first_response_time, ticket.first_response_at, t),
                        resolution_violation |->
                            Violation(resolution_time, NoTime, t)]]

\* main.py 1633-1680: the definitions the admins created, the latest last
SlaDefinitions ==
    <<[priority |-> "high", is_active |-> TRUE, response_time_minutes |-> 1,
       resolution_time_minutes |-> 2],
      [priority |-> "high", is_active |-> TRUE, response_time_minutes |-> 2,
       resolution_time_minutes |-> 2],
      [priority |-> "low", is_active |-> TRUE, response_time_minutes |-> 1,
       resolution_time_minutes |-> 1]>>

SlaRequests ==
    [context : {"billing"}, subject : {"refund"}, priority : {"high", "asap"}]

InitSla ==
    /\ InitClassifierIdle
    /\ tickets = <<>>
    /\ email_messages = <<>>
    /\ email_threads = <<>>
    /\ messages = <<>>
    /\ ticket_tags = <<>>
    /\ routing_logs = <<>>
    /\ calls = <<>>
    /\ lastCall = NoCall
    /\ InitRouting2
    /\ unique_message_id = TRUE
    /\ email_accounts = {}
    /\ users = {Agent, Alice, Bob}
    /\ settings = DefaultAiSettings
    /\ sla_definitions = SlaDefinitions
    /\ now = 0

\* main.py 1722-1809: update_ticket_priority
UpdateTicketPriority(ticket_id, priority) ==
    /\ priority \in {"low", "medium", "high", "urgent"}
    /\ ticket_id \in DOMAIN tickets
    /\ tickets' =
           [tickets EXCEPT
               ![ticket_id].priority = priority,
               ![ticket_id].sla_id =
                   IF LatestSlaId(sla_definitions, priority) # 0
                   THEN LatestSlaId(sla_definitions, priority) ELSE @]
    /\ lastCall' = [call |-> [op |-> "priority", outcome |-> "ok",
                              ticket_id |-> ticket_id],
                    before |-> DB]
    /\ UNCHANGED <<classifyVars, ml_model, configVars, slaVars, email_messages,
                   email_threads, messages, ticket_tags, routing_logs, calls>>

\* main.py 2189-2247: admin_reply_to_ticket
\* the first response time overwritten by every reply
FirstResponseAtLatest(ticket, t) == t

\* main.py 2235-2237: first_response_at is written only when the row has none
FirstResponseAt(ticket, t) ==
    IF ticket.first_response_at = NoTime THEN t ELSE ticket.first_response_at

AdminReplyToTicket(ticket_id, admin) ==
    /\ ticket_id \in DOMAIN tickets
    /\ messages' = Append(messages, WebMessage(ticket_id, "admin", now))
    /\ tickets' =
           [tickets EXCEPT
               ![ticket_id].first_response_at = FirstResponseAt(tickets[ticket_id], now),
               ![ticket_id].status =
                   IF @ = "open" THEN "human_assigned" ELSE @,
               ![ticket_id].assigned_to =
                   IF tickets[ticket_id].status = "open" THEN admin.email ELSE @]
    /\ lastCall' = [call |-> [op |-> "admin_reply", outcome |-> "ok",
                              ticket_id |-> ticket_id],
                    before |-> DB]
    /\ UNCHANGED <<classifyVars, ml_model, configVars, slaVars, email_messages,
                   email_threads, ticket_tags, routing_logs, calls>>

\* a definition is switched off in the store (column is_active, read at
\* main.py 1861 and 1874; no handler writes it)
DeactivateSla(sla_id) ==
    /\ sla_id \in DOMAIN sla_definitions
    /\ sla_definitions[sla_id].is_active
    /\ sla_definitions' = [sla_definitions EXCEPT ![sla_id].is_active = FALSE]
    /\ lastCall' = [call |-> [op |-> "deactivate", outcome |-> "ok"], before |-> DB]
    /\ UNCHANGED <<classifyVars, ml_model, configVars, tableVars, now, calls>>

\* when the operation before this one was close_ticket on the ticket: its time
ClosedJustBefore(ticket_id) ==
    IF lastCall.call.op = "close" /\ lastCall.call.ticket_id = ticket_id
    THEN lastCall.call.at ELSE NoTime

GetTicketSlaStatus(ticket_id, user) ==
    /\ \E r \in {get_ticket_sla_status(tickets, sla_definitions, ticket_id, user, now)} :
           lastCall' = [call |-> [op |-> "sla_status", outcome |-> r.outcome,
                                  ticket_id |-> ticket_id, user_id |-> user.email,
                                  at |-> now, status |-> r.status,
                                  closed_at |-> ClosedJustBefore(ticket_id)],
                        before |-> DB]
    /\ UNCHANGED <<classifyVars, ml_model, configVars, tableVars, slaVars, calls>>

NextSla ==
    \/ /\ Len(messages) < MaxWebMessages
       /\ \E req \in SlaRequests :
              CreateOrContinueTicket(req, Alice, FALSE,
                                     [i \in 1..(settings.openai_max_retries + 1) |-> TRUE])
    \/ \E ticket_id \in 1..MaxTickets, priority \in {"low", "medium"} :
           UpdateTicketPriority(ticket_id, priority)
    \/ /\ Len(messages) < MaxWebMessages
       /\ \E ticket_id \in 1..MaxTickets : AdminReplyToTicket(ticket_id, Agent)
    \/ \E sla_id \in DOMAIN sla_definitions : DeactivateSla(sla_id)
    \/ \E ticket_id \in 1..MaxTickets, user \in {Alice, Bob} :
           GetTicketSlaStatus(ticket_id, user)
    \/ Tick(SlaTickSeconds, MaxSlaNow)

SpecSla == InitSla /\ [][NextSla]_vars

\* the life of one web ticket: opened by a customer, answered, assigned,
\* re-prioritised, routed and closed by administrators, its SLA status read
MaxLifecycleTickets == 1

LifecycleRequests ==
    [context : {"billing"}, subject : {<<"refund">>}, priority : {"high"}]

LifecycleRules ==
    <<Rule(1, 10, NoConditions, "assign_to_agent", "agent@example.com"),
      Rule(2, 5, NoConditions, "set_priority", "low")>>

InitLifecycle ==
    /\ InitClassifierIdle
    /\ tickets = <<>>
    /\ email_messages = <<>>
    /\ email_threads = <<>>
    /\ messages = <<>>
    /\ ticket_tags = <<>>
    /\ routing_logs = <<>>
    /\ calls = <<>>
    /\ lastCall = NoCall
    /\ tags = {}
    /\ routing_rules = LifecycleRules
    /\ unique_message_id = TRUE
    /\ email_accounts = {}
    /\ users = {Agent, Alice}
    /\ settings = DefaultAiSettings
    /\ sla_definitions = SlaDefinitions
    /\ now = 0

NextLifecycle ==
    \/ /\ Len(tickets) < MaxLifecycleTickets
       /\ \E req \in LifecycleRequests :
              CreateOrContinueTicket(req, Alice, FALSE,
                                     [i \in 1..(settings.openai_max_retries + 1) |-> TRUE])
    \/ /\ Len(messages) < MaxMessages
       /\ \E ticket_id \in 1..MaxLifecycleTickets : AdminReplyToTicket(ticket_id, Agent)
    \/ \E ticket_id \in 1..MaxLifecycleTickets : AssignAgent(ticket_id, Agent.email)
    \/ \E ticket_id \in 1..MaxLifecycleTickets, priority \in {"low", "high"} :
           UpdateTicketPriority(ticket_id, priority)
    \/ \E ticket_id \in DOMAIN tickets : ApplyRoutingRules(ticket_id)
    \/ \E ticket_id \in 1..MaxLifecycleTickets : CloseTicket(ticket_id)
    \/ \E ticket_id \in 1..MaxLifecycleTickets : GetTicketSlaStatus(ticket_id, Alice)
    \/ Tick(SlaTickSeconds, MaxSlaNow)

SpecLifecycle == InitLifecycle /\ [][NextLifecycle]_vars

----------------------------------------------------------------------------
(* Properties of the web form *)

\* create_or_continue_ticket was the last operation
Created == lastCall.call.op = "create"

\* the tickets the form of the last call could continue: open, of the
\* requesting user, with the context and the subject of the form
Continuable ==
    {i \in DOMAIN lastCall.before.tickets :
        LET t == lastCall.before.tickets[i]
        IN  /\ t.status = "open"
            /\ t.user_id = lastCall.call.user_id
            /\ t.context = lastCall.call.req.context
            /\ t.subject = lastCall.call.req.subject}

\* C13: create_or_continue_ticket continues a ticket exactly when an open
\* ticket of the requesting user with the same context and subject exists,
\* and otherwise inserts one open ticket; so no two open tickets share owner,
\* context and subject
C13_WebFormMatch ==
    /\ Created =>
           /\ (Continuable # {}) <=> (lastCall.call.created = 0)
           /\ Continuable # {} =>
                  /\ lastCall.call.ticket_id \in Continuable
                  /\ tickets = lastCall.before.tickets
           /\ Continuable = {} =>
                  /\ Len(tickets) = Len(lastCall.before.tickets) + 1
                  /\ SubSeq(tickets, 1, Len(tickets) - 1) = lastCall.before.tickets
                  /\ lastCall.call.ticket_id = Len(tickets)
                  /\ tickets[Len(tickets)].status = "open"
                  /\ tickets[Len(tickets)].user_id = lastCall.call.user_id
                  /\ tickets[Len(tickets)].context = lastCall.call.req.context
                  /\ tickets[Len(tickets)].subject = lastCall.call.req.subject
    /\ \A i, j \in DOMAIN tickets :
           (/\ tickets[i].status = "open" /\ tickets[j].status = "open"
            /\ tickets[i].user_id = tickets[j].user_id
            /\ tickets[i].context = tickets[j].context
            /\ tickets[i].subject = tickets[j].subject) => i = j

\* a form is sent again after its first ticket was closed and a second one
\* opened: the second ticket is continued
C13_Witness ==
    /\ Created
    /\ lastCall.call.created = 0
    /\ lastCall.call.ticket_id = 2
    /\ tickets[1].status = "closed"
    /\ tickets[1].user_id = tickets[2].user_id
    /\ tickets[1].subject = tickets[2].subject
    /\ tickets[1].context = tickets[2].context

\* the last operation was a web call that came to the rate limit check
RateChecked ==
    /\ lastCall.call.op \in {"create", "reply"}
    /\ lastCall.call.outcome \in {"rate_limited", "reply", "raise"}

\* the AI messages the ticket of the last call had, when the call came, inside
\* the window that ended then
AiRepliesInWindow ==
    {i \in DOMAIN lastCall.before.messages :
        LET m == lastCall.before.messages[i]
        IN  /\ m.ticket_id = lastCall.call.ticket_id
            /\ m.sender = "ai"
            /\ lastCall.call.at - m.created_at <= settings.ai_reply_window_seconds}

\* C20: is_rate_limited answers true, with the count, exactly when its query
\* succeeds and finds ai_reply_max_per_window or more AI messages of the ticket
\* inside the last ai_reply_window_seconds, and answers (false, {}) when the
\* query fails; when it answers true the web call has stored the customer
\* message and no AI message and answers rate_limited
C20_AiRateLimit ==
    RateChecked =>
        LET rate == lastCall.call.rate IN
        /\ rate.limited <=>
               (/\ ~lastCall.call.query_fails
                /\ Cardinality(AiRepliesInWindow) >= settings.ai_reply_max_per_window)
        /\ rate.counted => rate.ai_replies_in_window = Cardinality(AiRepliesInWindow)
        /\ rate.counted <=> ~lastCall.call.query_fails
        /\ rate.limited <=> lastCall.call.outcome = "rate_limited"
        /\ rate.limited =>
               messages = Append(lastCall.before.messages,
                                 WebMessage(lastCall.call.ticket_id, "customer",
                                            lastCall.call.at))

\* a reply to a ticket that got two AI messages within the minute is limited
C20_Witness ==
    /\ RateChecked
    /\ lastCall.call.op = "reply"
    /\ lastCall.call.outcome = "rate_limited"
    /\ lastCall.call.rate.ai_replies_in_window = 2
    /\ messages[Len(messages)].sender = "customer"

----------------------------------------------------------------------------
(* Properties of the SLA status *)

\* get_ticket_sla_status was the last operation and answered
SlaAnswered == lastCall.call.op = "sla_status" /\ lastCall.call.outcome = "ok"

\* the ticket the status was asked for
SlaTicket == tickets[lastCall.call.ticket_id]

\* created_at + response_time_minutes of the definition the status names
ExpectedResponse ==
    SlaTicket.created_at
        + 60 * sla_definitions[lastCall.call.status.sla_id].response_time_minutes

\* the instant the deadline is compared with: the first response, or the
\* clock of the call when there is none
ResponseInstant ==
    IF SlaTicket.first_response_at # NoTime
    THEN SlaTicket.first_response_at ELSE lastCall.call.at

\* C14: the status reports a response violation exactly when the first
\* response, or the clock when there is no response yet, is later than
\* created_at + response_time_minutes, and violation_minutes is the whole
\* number of minutes between the two
C14_SlaResponseViolation ==
    (SlaAnswered /\ lastCall.call.status.sla_defined) =>
        /\ lastCall.call.status.expected_response = ExpectedResponse
        /\ lastCall.call.status.response_violation.violated
               <=> ResponseInstant > ExpectedResponse
        /\ lastCall.call.status.response_violation.violated =>
               \E m \in 0..MaxSlaNow :
                   /\ lastCall.call.status.response_violation.violation_minutes = m
                   /\ 60 * m <= ResponseInstant - ExpectedResponse
                   /\ ResponseInstant - ExpectedResponse < 60 * (m + 1)

\* a ticket answered 30 s after its deadline of one minute is asked for 45 s
\* after the answer: the violation is of 0 whole minutes, not of 1
C14_Witness ==
    /\ SlaAnswered
    /\ lastCall.call.status.sla_defined
    /\ SlaTicket.created_at = 0
    /\ SlaTicket.first_response_at = 90
    /\ lastCall.call.at = 135
    /\ ExpectedResponse = 60
    /\ lastCall.call.status.response_violation =
           [violated |-> TRUE, violation_minutes |-> 0]

\* the ticket's sla_id names an active definition
BoundSlaActive ==
    /\ SlaTicket.sla_id # 0
    /\ sla_definitions[SlaTicket.sla_id].is_active

\* the active definitions of the ticket's priority
PrioritySlas ==
    {i \in DOMAIN sla_definitions :
        /\ sla_definitions[i].is_active
        /\ sla_definitions[i].priority = SlaTicket.priority}

\* C15: the status uses the definition of the ticket's sla_id when it is
\* active, otherwise the latest active definition of the ticket's priority,
\* and with neither answers sla_defined = false without deadlines or violations
C15_SlaResolution ==
    SlaAnswered =>
        /\ BoundSlaActive =>
               /\ lastCall.call.status.sla_defined
               /\ lastCall.call.status.sla_id = SlaTicket.sla_id
        /\ (~BoundSlaActive /\ PrioritySlas # {}) =>
               /\ lastCall.call.status.sla_defined
               /\ lastCall.call.status.sla_id \in PrioritySlas
               /\ \A i \in PrioritySlas : i <= lastCall.call.status.sla_id
        /\ (~BoundSlaActive /\ PrioritySlas = {}) =>
               lastCall.call.status = NoSlaStatus

\* the definition a ticket was bound to is switched off and the ticket falls
\* back to the older definition of its priority
C15_Witness ==
    /\ SlaAnswered
    /\ SlaTicket.sla_id = 2
    /\ ~sla_definitions[2].is_active
    /\ lastCall.call.status.sla_defined
    /\ lastCall.call.status.sla_id = 1

----------------------------------------------------------------------------
(* Properties of the subject and of failed intake calls *)

\* the last intake call created a ticket
TicketCreated == (Polled \/ Webhooked) /\ lastCall.call.created # 0

\* the leading words of the subject of the last call that are reply or
\* forward marks in any case
LeadingMarks ==
    {n \in 1..Len(lastCall.call.e.subject) :
        \A i \in 1..n : Lower(lastCall.call.e.subject[i]) \in {"re:", "fwd:", "fw:"}}

\* C16: the subject stored for a ticket created from an email is the email's
\* subject without any of its leading Re:/Fwd:/FW:/RE: marks, and cleaning the
\* stored subject again changes nothing
C16_SubjectNormalization ==
    (TicketCreated /\ Cardinality(LeadingMarks) < Len(lastCall.call.e.subject)) =>
        /\ tickets[lastCall.call.created].subject =
               SubSeq(lastCall.call.e.subject, Cardinality(LeadingMarks) + 1,
                      Len(lastCall.call.e.subject))
        /\ CleanSubject(tickets[lastCall.call.created].subject) =
               tickets[lastCall.call.created].subject

\* C17: an intake call that fails leaves no ticket of its own in the store,
\* and every ticket has an EmailMessage attached
C17_NoPartialTicket ==
    /\ ((Polled \/ Webhooked) /\ lastCall.call.outcome = "error") =>
           tickets = lastCall.before.tickets
    /\ \A t \in DOMAIN tickets :
           \E i \in DOMAIN email_messages : email_messages[i].ticket_id = t

\* C18: every rule apply_routing_rules applied to a ticket is a rule of the
\* ticket's organization, or a global rule when the ticket has none
C18_RuleScope ==
    \A i \in DOMAIN routing_logs :
        routing_rules[routing_logs[i].routing_rule_id].organization_id =
            tickets[routing_logs[i].ticket_id].organization_id

----------------------------------------------------------------------------
(* Further properties of the web form *)

\* the last operation was a web call that reached its ticket
WebAnswered ==
    /\ lastCall.call.op \in {"create", "reply"}
    /\ lastCall.call.outcome \notin {"not_found", "forbidden"}

\* the agent the ticket of the last call was assigned to when the call came
Assignee ==
    IF lastCall.call.ticket_id \in DOMAIN lastCall.before.tickets
    THEN lastCall.before.tickets[lastCall.call.ticket_id].assigned_to
    ELSE "None"

\* C21: a web call on a ticket that has an assigned agent stores the customer
\* message and nothing else, runs neither the rate limit check nor the model,
\* and its reply names the agent
C21_HumanSuppressesAi ==
    (WebAnswered /\ Assignee # "None") =>
        /\ messages = Append(lastCall.before.messages,
                             WebMessage(lastCall.call.ticket_id, "customer",
                                        lastCall.call.at))
        /\ tickets = lastCall.before.tickets
        /\ ~lastCall.call.generated
        /\ lastCall.call.rate = NoRateCheck
        /\ lastCall.call.outcome = "human"
        /\ lastCall.call.agent = Assignee

\* a reply to an assigned ticket that had two AI messages within the minute:
\* the customer is told of the agent, not of the rate limit
C21_Witness ==
    /\ WebAnswered
    /\ lastCall.call.op = "reply"
    /\ Assignee = "agent@example.com"
    /\ lastCall.call.outcome = "human"
    /\ Cardinality(AiRepliesInWindow) >= 2

----------------------------------------------------------------------------
(* Further properties of routing *)

\* _apply_rule_action returns success False for the rule: routing_service.py
\* 204-208 (no admin or super_admin of that email), 210-214 (priority outside
\* the enum), 242-243 (tag not found)
InapplicableRule(rule) ==
    \/ /\ rule.action_type = "assign_to_agent"
       /\ ~\E u \in users : /\ u.email = Lower(rule.action_value)
                            /\ u.role \in {"admin", "super_admin"}
    \/ /\ rule.action_type = "set_priority"
       /\ Lower(rule.action_value) \notin {"low", "medium", "high", "urgent"}
    \/ /\ rule.action_type = "add_tag"
       /\ ~\E t \in tags : t.name = rule.action_value

\* the matching rules of the last pass whose action cannot be applied
SkippedRules == {i \in MatchingRules : InapplicableRule(routing_rules[i])}

\* the matching rules that come after a skipped rule in the order
RulesAfterSkipped ==
    {j \in MatchingRules \ SkippedRules :
        \E i \in SkippedRules : routing_rules[j].priority < routing_rules[i].priority}

\* the ticket carries nothing an inapplicable action names
UntouchedBySkipped ==
    LET t == tickets[lastCall.call.ticket_id]
    IN  /\ t.priority \in {"low", "medium", "high", "urgent"}
        /\ t.assigned_to \in
               {"None"} \cup {u.email : u \in {v \in users : v.role \in {"admin", "super_admin"}}}
        /\ TicketTagIds(DB, lastCall.call.ticket_id) \subseteq {g.id : g \in tags}
        /\ (MatchingRules = SkippedRules =>
               /\ tickets = lastCall.before.tickets
               /\ ticket_tags = lastCall.before.ticket_tags
               /\ routing_logs = lastCall.before.routing_logs)

\* C22: a matching rule whose action cannot be applied changes nothing on the
\* ticket and is not among the applied rules, and every matching rule after it
\* in the order is applied
C22_InvalidActionSkipped ==
    (Routed /\ SkippedRules # {}) =>
        /\ UntouchedBySkipped
        /\ \A i \in SkippedRules : routing_rules[i].id \notin Range(AppliedRules)
        /\ \A j \in RulesAfterSkipped : routing_rules[j].id \in Range(AppliedRules)

\* the rules the query of the last pass selected
SelectedRules ==
    {i \in DOMAIN routing_rules : routing_rules[i].is_active}

\* a condition group of the rule passes on the ticket the pass read: one of its
\* values matches, a ticket without category having no category text
GroupPasses(rule, group) ==
    LET db == lastCall.before
        ticket_id == lastCall.call.ticket_id
        ticket == db.tickets[ticket_id]
        values == rule.conditions[group]
        text == LowerText(ticket.subject) \o LowerText(TicketText(db, ticket_id))
                    \o <<Lower(ticket.context)>>
    IN  CASE group = "keywords" ->
                 \E k \in values : \E w \in Range(text) :
                     Lower(k) \in KeywordsWithin(w) \cup {w}
          [] group = "issue_types" ->
                 \E v \in values :
                     \/ /\ ticket.category # "None"
                        /\ Contains(Lower(ticket.category), Lower(v))
                     \/ Contains(Lower(ticket.context), Lower(v))
          [] group = "tags" ->
                 \E g \in tags : g.name \in values /\ g.id \in TicketTagIds(db, ticket_id)
          [] group = "context" ->
                 \E v \in values : Lower(v) = Lower(ticket.context)
          [] group = "priority" ->
                 \E v \in values : Lower(v) = Lower(ticket.priority)

\* every group present in the rule passes
ConditionsHold(rule) ==
    \A group \in DOMAIN rule.conditions :
        rule.conditions[group] # {} => GroupPasses(rule, group)

\* C23: a pass treats a rule as matching exactly when every condition group
\* present in the rule passes on the ticket, a group passing when one of its
\* values matches and an empty group passing always: the rules applied are the
\* selected rules whose conditions hold (and whose action can be applied)
C23_RuleConditions ==
    Routed =>
        \A i \in SelectedRules :
            ~InapplicableRule(routing_rules[i]) =>
                (routing_rules[i].id \in Range(AppliedRules)
                    <=> ConditionsHold(routing_rules[i]))

\* the selected rules whose evaluation raises on the ticket the last pass read
RaisingRules ==
    LET db == lastCall.before
        ticket_id == lastCall.call.ticket_id
        ticket == db.tickets[ticket_id]
    IN  {i \in SelectedRules :
            _rule_matches(routing_rules[i], ticket,
                          LowerText(TicketText(db, ticket_id)),
                          LowerText(ticket.subject), Lower(ticket.context),
                          TicketTagIds(db, ticket_id)) = "raise"}

\* the rule was applied by the last pass
Applied(i) == routing_rules[i].id \in Range(AppliedRules)

\* C27: within one pass every rule is judged on the ticket as the pass read it
\* at its start (priority, category, tags, text), whatever the rules before it
\* have written: the rules applied are those that match that ticket, up to the
\* first rule whose evaluation raises on it
C27_SnapshotEvaluation ==
    Routed =>
        \A i \in SelectedRules :
            /\ Applied(i) =>
                   /\ i \in MatchingRules
                   /\ \A j \in RaisingRules :
                          routing_rules[j].priority <= routing_rules[i].priority
            /\ (/\ i \in MatchingRules
                /\ ~InapplicableRule(routing_rules[i])
                /\ \A j \in RaisingRules :
                       routing_rules[j].priority < routing_rules[i].priority) => Applied(i)

\* a pass in which a rule set the priority to "high" and a later rule, whose
\* condition asks for priority "medium", was applied all the same
C27_Witness ==
    /\ Routed
    /\ \E a, b \in DOMAIN AppliedRules :
           /\ a < b
           /\ routing_rules[AppliedRules[a]].action_type = "set_priority"
           /\ routing_rules[AppliedRules[a]].action_value = "high"
           /\ routing_rules[AppliedRules[b]].conditions.priority = {"medium"}
    /\ lastCall.before.tickets[lastCall.call.ticket_id].priority = "medium"

----------------------------------------------------------------------------
(* Further properties of the classifier *)

\* the prediction of the model for the classified message, and whether
\* classify used it
ModelPrediction == predict(ml_model)

ModelUsed ==
    settings.email_ml_classifier_enabled /\ ModelPrediction.method = "ml"

\* the rule scores of the classified message, clamped
ClampedSpamScore == Min(RuleSpamScore(parsed_email), 100)

ClampedPromotionScore == Min(RulePromotionScore(parsed_email), 100)

\* C24: with a model prediction in use spam_score is 0.6 of the model's spam
\* probability plus 0.4 of the clamped rule score, and at least 0.7 when the
\* model predicts spam with confidence over 0.7; promotion_score is at least
\* the model's confidence when it predicts promotion; both stay in [0, 1];
\* without a prediction the scores are the clamped rule scores, ml_used false
C24_ScoreFusion ==
    Classified =>
        /\ classification.ml_used = ModelUsed
        /\ classification.spam_score \in 0..100
        /\ classification.promotion_score \in 0..100
        /\ ModelUsed =>
               LET m == ModelPrediction
                   fused == 60 * m.ml_score + 40 * ClampedSpamScore
               IN  /\ 100 * classification.spam_score =
                          IF m.is_spam /\ m.confidence > 70 /\ fused < 7000
                          THEN 7000 ELSE fused
                   /\ classification.promotion_score =
                          IF m.is_promotion
                          THEN Max(ClampedPromotionScore, m.confidence)
                          ELSE ClampedPromotionScore
        /\ ~ModelUsed =>
               /\ classification.spam_score = ClampedSpamScore
               /\ classification.promotion_score = ClampedPromotionScore

\* the model predicts spam with confidence 0.8 on a message the rules score
\* low: the fused score, under 0.7, is raised to 0.7
C24_Witness ==
    /\ Classified
    /\ ModelUsed
    /\ ModelPrediction.is_spam
    /\ ModelPrediction.confidence = 80
    /\ 60 * ModelPrediction.ml_score + 40 * ClampedSpamScore < 7000
    /\ classification.spam_score = 70

----------------------------------------------------------------------------
(* Properties of ticket creation *)

\* the ticket the last call created, 0 when it created none
CreatedTicketId ==
    IF lastCall.call.op \in {"poll", "webhook", "create"}
    THEN lastCall.call.created ELSE 0

\* the priority the creating call was given, "medium" when none or no valid one
GivenPriority ==
    IF /\ lastCall.call.op = "create"
       /\ lastCall.call.req.priority \in {"low", "medium", "high", "urgent"}
    THEN lastCall.call.req.priority ELSE "medium"

\* C25: a ticket created by the web form, the polling service or the webhook
\* starts with status open, with the priority given or else medium, and with
\* sla_id bound to the latest active SLA definition for that priority when
\* one exists, unset when none does
C25_CreationDefaults ==
    CreatedTicketId # 0 =>
        LET t == tickets[CreatedTicketId]
        IN  /\ t.status = "open"
            /\ t.priority = GivenPriority
            /\ t.sla_id = LatestSlaId(sla_definitions, t.priority)

----------------------------------------------------------------------------
(* Further properties of the filter *)

\* the message names a parent, and no stored EmailMessage has that message_id
UnresolvedReply(e, db) ==
    /\ e.in_reply_to # ""
    /\ EmailIdsByMessageId(db, e.in_reply_to) = {}

\* the scores say spam, or promotion while promotions are filtered
ScoresSayFilter(c) ==
    \/ c.spam_score >= 50
    \/ settings.email_filter_promotions /\ c.promotion_score >= 50

\* C26: a message whose in_reply_to matches no stored EmailMessage gets no
\* reply override: is_spam and is_promotion follow the score thresholds, and
\* with filtering on and an unregistered sender it is dropped like any other
\* message the scores mark
C26_ReplyOverrideKnownOnly ==
    (Polled /\ UnresolvedReply(lastCall.call.e, lastCall.before)) =>
        LET c == Classification(lastCall.call.e)
        IN  /\ c.is_spam <=> c.spam_score >= 50
            /\ c.is_promotion <=> (c.promotion_score >= 50 /\ ~c.is_spam)
            /\ (/\ settings.email_spam_filter_enabled
                /\ ~IsRegisteredUser(Lower(lastCall.call.e.from_email))
                /\ ScoresSayFilter(c)) => Dropped

----------------------------------------------------------------------------
(* Further properties of priorities and SLAs *)

\* C28: a ticket whose sla_id is set references an SLA definition of the
\* ticket's current priority, and get_ticket_sla_status computes its deadlines
\* from a definition of that priority
C28_SlaFollowsPriority ==
    /\ \A i \in DOMAIN tickets :
           tickets[i].sla_id # 0 =>
               sla_definitions[tickets[i].sla_id].priority = tickets[i].priority
    /\ (SlaAnswered /\ lastCall.call.status.sla_defined) =>
           sla_definitions[lastCall.call.status.sla_id].priority = SlaTicket.priority

\* C29: for a ticket closed by close_ticket no later than its expected
\* resolution time, a later get_ticket_sla_status reports no resolution
\* violation however much time has passed since (here: the status calls that
\* follow the close with nothing but time in between)
C29_CloseStopsClock ==
    (/\ SlaAnswered
     /\ lastCall.call.status.sla_defined
     /\ lastCall.call.closed_at # NoTime
     /\ lastCall.call.closed_at <= lastCall.call.status.expected_resolution) =>
        ~lastCall.call.status.resolution_violation.violated

\* the response verdict get_ticket_sla_status would give for the ticket now
ResponseVerdict(i) ==
    get_ticket_sla_status(tickets, sla_definitions, i, Agent, now).status.response_violation

\* the expected response time a status call would compute for the ticket now
ExpectedResponseOf(i) ==
    get_ticket_sla_status(tickets, sla_definitions, i, Agent, now).status.expected_response

\* the step is an admin reply to ticket i
AdminReplied(i) ==
    /\ lastCall'.call.op = "admin_reply"
    /\ lastCall'.call.ticket_id = i
    /\ lastCall' # lastCall

\* first_response_at of ticket i is set by the first admin reply and kept by
\* every step once it is set
WrittenOnce(i) ==
    /\ (tickets[i].first_response_at = NoTime /\ Len(messages') > Len(messages)
            /\ AdminReplied(i)) =>
           tickets'[i].first_response_at = now
    /\ tickets[i].first_response_at # NoTime =>
           tickets'[i].first_response_at = tickets[i].first_response_at

\* C30 as stated: first_response_at is set by the first admin reply and never
\* changed or cleared afterwards, and the response verdict of a ticket that
\* has a response never changes
C30_FirstResponseWriteOnce ==
    [][\A i \in DOMAIN tickets :
           /\ WrittenOnce(i)
           /\ tickets[i].first_response_at # NoTime =>
                  ResponseVerdict(i)' = ResponseVerdict(i)]_vars

\* C30, amended: first_response_at is set by the first admin reply and never
\* changed or cleared afterwards, and the response verdict of a ticket that
\* has a response changes only when the expected response time changes (the
\* ticket's SLA being rebound by a priority change)
C30_FirstResponseWriteOnceSameSla ==
    [][\A i \in DOMAIN tickets :
           /\ WrittenOnce(i)
           /\ (/\ tickets[i].first_response_at # NoTime
               /\ ExpectedResponseOf(i)' = ExpectedResponseOf(i)) =>
                  ResponseVerdict(i)' = ResponseVerdict(i)]_vars

\* a second admin reply, later than the first, left first_response_at alone
C30_Witness ==
    /\ lastCall.call.op = "admin_reply"
    /\ lastCall.before.tickets[lastCall.call.ticket_id].first_response_at # NoTime
    /\ tickets[lastCall.call.ticket_id].first_response_at < now
    /\ tickets[lastCall.call.ticket_id].first_response_at =
           lastCall.before.tickets[lastCall.call.ticket_id].first_response_at

====
